---- MODULE Spec2Model ----
(***************************************************************************)
(* template-tag-common (src/index.js): the tag function built by           *)
(* memoizedTagFunction, its identity-keyed memo table, the Configure /     *)
(* Invoke dispatch of usingOptions and the shape validation of             *)
(* requireValidTagInputs.                                                  *)
(*                                                                         *)
(* JavaScript values are modelled as strings: "undefined", "null", "0",    *)
(* "false", object names, and thrown values such as "Error(boom)".  Array  *)
(* objects live on the heap and are named by their identity.               *)
(***************************************************************************)
EXTENDS Integers, Sequences, FiniteSets, TLC

VARIABLES
  heap,         \* identity -> the array object: elements, frozen flag, raw property
  memoTable,    \* the WeakMap of memoizedTagFunction: identity -> {pass} or {fail}
  fns,          \* the tag functions that exist: fns[i] is the options bound to function i
  last,         \* what the most recent call of a tag function did
  staticCalls,  \* identity -> computeStaticHelper invocations made while it was memoizable
  firstStatic,  \* identity -> outcome of the first of those invocations
  probe         \* the library function applied last, other than a tag function:
                \* its arguments and what it returned

vars == <<heap, memoTable, fns, last, staticCalls, firstStatic, probe>>

----------------------------------------------------------------------------
(* Bounds of the model *)

MaxLen == 2      \* longest chunk sequence
MaxCalls == 2    \* computeStaticHelper invocations counted for one memoizable identity
MaxChars == 4    \* characters in the raw chunks of a template given to the trimmer
MaxEscape == 6   \* characters in a raw chunk of numeric escapes given to cook
MaxLine == 5     \* characters in the one raw chunk of a template of lines

\* The array objects: "s1" is an array the caller builds, extends and may freeze
\* (test 'mutation of chunks array'); "s2" is the template object the engine makes
\* for tag`foo${x}foo`, frozen from the start.
Identities == {"s1", "s2"}

----------------------------------------------------------------------------
(* JavaScript values *)

Undefined == "undefined"
Null == "null"

\* ToBoolean
Truthy(val) == val \notin {"undefined", "null", "0", "false", ""}

IsNullish(val) == val \in {Undefined, Null}

\* the Error objects of the model, named by their message
ErrBoom == "Error(boom)"
ErrEmpty == "Error()"
ErrFailure == "Error(Failure)"
ErrResult == "Error(result)"
ErrInvalid == "Error(Invalid static strings)"
ErrCount == "Error(Too many or too few dynamic values)"

\* the TypeError the engine raises on a property access of undefined or null
TypeErrorValue == "TypeError(Cannot read properties of undefined or null)"

\* new Error(message)
ErrorWith(message) ==
  CASE message = "boom" -> ErrBoom
    [] message = "" -> ErrEmpty
    [] message = "Failure" -> ErrFailure
    [] message = "result" -> ErrResult
    [] message = "Invalid static strings" -> ErrInvalid
    [] message = "Too many or too few dynamic values" -> ErrCount

\* exc.message
MessageOf(exc) ==
  CASE exc = ErrBoom -> "boom"
    [] exc = ErrEmpty -> ""
    [] exc = ErrFailure -> "Failure"
    [] exc = ErrResult -> "result"
    [] exc = ErrInvalid -> "Invalid static strings"
    [] exc = ErrCount -> "Too many or too few dynamic values"
    [] exc = TypeErrorValue -> "Cannot read properties of undefined or null"
    [] OTHER -> Undefined

StringVals == {"foo"}
Num123 == "number:123"
ElemVals == StringVals \cup {Num123}

\* non-array values a tag function may be called with
OptionsA == "optionsA"
OptionsB == "optionsB"
ArrayLike == "arrayLike"     \* { length: 1, 0: 'foo', raw: { length: 1, 0: 'foo' } }
FrozenArrayLike == "frozenArrayLike"  \* the same, frozen, with a frozen array as raw
EmptyObject == "{}"
PlainVals == {Undefined, Null, OptionsA, OptionsB, ArrayLike}

\* the i-th dynamic value of a call is named by its position
DynNames == <<"v1", "v2", "v3", "v4", "v5", "v6">>
DynamicValues(k) == SubSeq(DynNames, 1, k)

----------------------------------------------------------------------------
(* Array objects *)

NoRaw == [kind |-> "undefined", elems |-> <<>>, frozen |-> FALSE]
RawArray(elems, frozen) == [kind |-> "array", elems |-> elems, frozen |-> frozen]
RawObject(elems) == [kind |-> "object", elems |-> elems, frozen |-> FALSE]

SeqsUpTo(S, n) == UNION {[1..k -> S] : k \in 0..n}

\* the pairs of sequences over S with at most n elements together
PairsUpTo(S, n) ==
  UNION {{<<a, b>> : a \in [1..k[1] -> S], b \in [1..k[2] -> S]} :
           k \in {kk \in (0..n) \X (0..n) : kk[1] + kk[2] <= n}}

\* Array.isArray(val): the heap holds the arrays
IsArray(val) == val \in Identities

\* val.raw
RawOf(h, val) ==
  IF IsArray(val) THEN h[val].raw
  ELSE IF val = ArrayLike THEN RawObject(<<"foo">>)
  ELSE IF val = FrozenArrayLike THEN RawArray(<<"foo">>, TRUE)
  ELSE NoRaw

\* the indexed elements of val
ElemsOf(h, val) ==
  IF IsArray(val) THEN h[val].elems
  ELSE IF val \in {ArrayLike, FrozenArrayLike} THEN <<"foo">>
  ELSE <<>>

\* val.length, where -1 stands for undefined
LengthOf(h, val) ==
  IF IsArray(val) \/ val \in {ArrayLike, FrozenArrayLike}
  THEN Len(ElemsOf(h, val)) ELSE -1

\* raw.length of a raw that is an object
RawLength(raw) == Len(raw.elems)

isString(val) == val \in StringVals

\* isStringArray, applied to (is it an array, its elements)
isStringArray(isArr, elems) ==
  isArr /\ \A i \in 1..Len(elems) : isString(elems[i])

\* Object.isFrozen(val), of an object or of a primitive value
IsFrozen(h, val) ==
  IF IsArray(val) THEN h[val].frozen
  ELSE val \notin {ArrayLike, OptionsA, OptionsB, EmptyObject}

----------------------------------------------------------------------------
(* calledAsTemplateTagQuick and calledAsTemplateTag *)

\* Faulty variant: Object.isFrozen(raw) is not asked.
calledAsTemplateTagQuickRawNotFrozen(h, firstArgument, argumentCount) ==
  IF Truthy(firstArgument) /\ IsFrozen(h, firstArgument) /\ IsArray(firstArgument)
  THEN LET raw == RawOf(h, firstArgument)
           length == LengthOf(h, firstArgument)
       IN  /\ length = argumentCount
           /\ raw.kind # "undefined"
           /\ length = RawLength(raw)
           /\ raw.kind = "array"
  ELSE FALSE

calledAsTemplateTagQuick(h, firstArgument, argumentCount) ==
  IF Truthy(firstArgument) /\ IsFrozen(h, firstArgument) /\ IsArray(firstArgument)
  THEN LET raw == RawOf(h, firstArgument)
           length == LengthOf(h, firstArgument)
       IN  /\ length = argumentCount
           /\ raw.kind # "undefined"          \* Boolean(raw)
           /\ length = RawLength(raw)
           /\ raw.frozen
           /\ raw.kind = "array"
  ELSE FALSE

\* every.call(arr, isString)
EveryIsString(elems) == \A i \in 1..Len(elems) : isString(elems[i])

\* Faulty variant: the elements of raw are not looked at.
calledAsTemplateTagRawUnchecked(h, firstArgument, argumentCount) ==
  /\ calledAsTemplateTagQuick(h, firstArgument, argumentCount)
  /\ EveryIsString(ElemsOf(h, firstArgument))

calledAsTemplateTag(h, firstArgument, argumentCount) ==
  /\ calledAsTemplateTagQuick(h, firstArgument, argumentCount)
  /\ EveryIsString(ElemsOf(h, firstArgument))
  /\ EveryIsString(RawOf(h, firstArgument).elems)

----------------------------------------------------------------------------
(* requireValidTagInputs(staticStrings, dynamicValues): the value it throws, *)
(* or NoThrow when it returns.                                             *)

NoThrow == "<no throw>"

\* Faulty variant: lines 86-88, the count of dynamic values, left out.
requireValidTagInputsNoCount(h, staticStrings, nDynamic) ==
  LET raw == RawOf(h, staticStrings)
      length == LengthOf(h, staticStrings)
  IN  IF IsNullish(staticStrings) THEN TypeErrorValue
      ELSE IF raw.kind = "undefined" THEN TypeErrorValue
      ELSE IF ~(/\ length = RawLength(raw)
                /\ isStringArray(IsArray(staticStrings), ElemsOf(h, staticStrings))
                /\ isStringArray(raw.kind = "array", raw.elems))
           THEN ErrorWith("Invalid static strings")
      ELSE NoThrow

requireValidTagInputs(h, staticStrings, nDynamic) ==
  LET raw == RawOf(h, staticStrings)
      length == LengthOf(h, staticStrings)
  IN  IF IsNullish(staticStrings) THEN TypeErrorValue      \* destructuring of undefined
      ELSE IF raw.kind = "undefined" THEN TypeErrorValue   \* raw.length of undefined
      ELSE IF ~(/\ length = RawLength(raw)
                /\ isStringArray(IsArray(staticStrings), ElemsOf(h, staticStrings))
                /\ isStringArray(raw.kind = "array", raw.elems))
           THEN ErrorWith("Invalid static strings")
      ELSE IF nDynamic + 1 # length
           THEN ErrorWith("Too many or too few dynamic values")
      ELSE NoThrow

----------------------------------------------------------------------------
(* The memo table, a WeakMap keyed by object identity *)

\* the two shapes of an entry: { pass: value } and { fail: message }
PassEntry(value) == [pass |-> value, fail |-> Undefined]
FailEntry(message) == [pass |-> Undefined, fail |-> message]

\* Faulty variant: the entry is never stored.
MemoSetDropped(memo, key, entry) == memo

\* memoTable.set(key, entry)
MemoSet(memo, key, entry) ==
  [k \in DOMAIN memo \cup {key} |-> IF k = key THEN entry ELSE memo[k]]

\* Faulty variant: the test of Object.isFrozen(staticStrings.raw) left out.
canMemoizeIgnoringRaw(h, staticStrings) == h[staticStrings].frozen

\* Faulty variant: every array is memoized, frozen or not.
canMemoizeAlways(h, staticStrings) == TRUE

\* canMemoize of staticStateFor
canMemoize(h, staticStrings) ==
  h[staticStrings].frozen /\ h[staticStrings].raw.frozen

\* no key: memoTable.get was not asked, or it answered undefined
NoKey == "<no key>"

\* Faulty variant: the table stores the bare static state and the lookup tests
\* it for truth, so that a falsy state (0, undefined, ...) is computed again.
MemoLookupTruthy(h, memo, staticStrings) ==
  IF /\ canMemoize(h, staticStrings)
     /\ staticStrings \in DOMAIN memo
     /\ Truthy(memo[staticStrings].pass)
  THEN staticStrings ELSE NoKey

\* Faulty variant: the table is keyed by the text of the chunks, so that an entry
\* made for another array with the same chunks is found.
MemoLookupByContent(h, memo, staticStrings) ==
  IF canMemoize(h, staticStrings)
     /\ \E k \in DOMAIN memo : h[k].elems = h[staticStrings].elems
  THEN CHOOSE k \in DOMAIN memo : h[k].elems = h[staticStrings].elems
  ELSE NoKey

(***************************************************************************)
(* Lines 134-140: the key under which staticStateFor finds an entry for    *)
(* staticStrings, NoKey when it goes on to compute.  A WeakMap files an    *)
(* object under its identity, and every entry is an object, so that        *)
(* `!staticState` is false for each entry found.                           *)
(***************************************************************************)
MemoLookup(h, memo, staticStrings) ==
  IF canMemoize(h, staticStrings) /\ staticStrings \in DOMAIN memo
  THEN staticStrings ELSE NoKey

(* An outcome of a helper: it returned val, or it threw val. *)
Returned(val) == [threw |-> FALSE, val |-> val]
Threw(val) == [threw |-> TRUE, val |-> val]

\* lines 141-146: the try / catch around computeStaticHelper, which did so.
\* died: the catch block itself threw, on exc.message of undefined or null
ComputeStatic(so) ==
  IF ~so.threw
  THEN [entry |-> PassEntry(so.val), failure |-> Null, died |-> FALSE]
  ELSE IF IsNullish(so.val)
  THEN [entry |-> PassEntry(Undefined), failure |-> Null, died |-> TRUE]
  ELSE [entry |-> FailEntry(IF Truthy(MessageOf(so.val))
                            THEN MessageOf(so.val) ELSE "Failure"),
        failure |-> so.val, died |-> FALSE]

(***************************************************************************)
(* staticStateFor(staticStrings), where so is what computeStaticHelper     *)
(* does if it is invoked.  The result says whether the helper was invoked, *)
(* the memo table afterwards, and what staticStateFor returned or threw.   *)
(***************************************************************************)
staticStateFor(h, memo, staticStrings, so) ==
  LET key == MemoLookup(h, memo, staticStrings)
      found == key # NoKey
      computed == ComputeStatic(so)
      staticState == IF found THEN memo[key] ELSE computed.entry
      failure == IF found THEN Null ELSE computed.failure
  IN  IF ~found /\ computed.died
      THEN [invoked |-> TRUE, memo |-> memo, out |-> Threw(TypeErrorValue)]
      ELSE [invoked |-> ~found,
            memo |-> IF ~found /\ canMemoize(h, staticStrings)
                     THEN MemoSet(memo, staticStrings, staticState) ELSE memo,
            out |-> IF Truthy(staticState.fail)
                    THEN Threw(IF Truthy(failure) THEN failure
                               ELSE ErrorWith(staticState.fail))
                    ELSE Returned(staticState.pass)]

----------------------------------------------------------------------------
(* The arrow function returned by usingOptions(options) *)

\* dynamicValues.length of a call with nargs arguments (the rest parameter)
RestLength(nargs) == IF nargs = 0 THEN 0 ELSE nargs - 1

\* Faulty variant: the test of line 162 without dynamicValues.length === 0.
IsConfigureCallAnyLength(nargs, staticStringsOrOptions) ==
  ~IsArray(staticStringsOrOptions)

\* the test of line 162: the call only passes an options object
IsConfigureCall(nargs, staticStringsOrOptions) ==
  RestLength(nargs) = 0 /\ ~IsArray(staticStringsOrOptions)

\* Faulty variant: options and static state change places.
ResultArgsSwapped(options, staticState, staticStrings, dynamicValues) ==
  [options |-> staticState, staticState |-> options,
   staticStrings |-> staticStrings, dynamicValues |-> dynamicValues]

\* the argument list computeResultHelper is applied to
ResultArgs(options, staticState, staticStrings, dynamicValues) ==
  [options |-> options, staticState |-> staticState,
   staticStrings |-> staticStrings, dynamicValues |-> dynamicValues]

NoArgs == [options |-> "", staticState |-> "", staticStrings |-> "",
           dynamicValues |-> <<>>]

\* the outcome recorded for a helper that was not invoked
NotInvoked == Returned("")

\* Faulty variant: staticStateFor is evaluated before requireValidTagInputs.
usingOptionsCallStaticFirst(options, nargs, arg, so, ro, h, memo) ==
  LET invalid == requireValidTagInputs(h, arg, RestLength(nargs))
      st == staticStateFor(h, memo, arg, so)
  IN  IF IsConfigureCall(nargs, arg)
      THEN [stage |-> "configure", out |-> Returned("function"), bound |-> arg,
            memo |-> memo, staticInvoked |-> FALSE, static |-> NotInvoked,
            resultInvoked |-> FALSE, resultArgs |-> NoArgs]
      ELSE IF st.out.threw
      THEN [stage |-> "static", out |-> st.out, bound |-> "",
            memo |-> st.memo, staticInvoked |-> st.invoked, static |-> st.out,
            resultInvoked |-> FALSE, resultArgs |-> NoArgs]
      ELSE IF invalid # NoThrow
      THEN [stage |-> "validation", out |-> Threw(invalid), bound |-> "",
            memo |-> st.memo, staticInvoked |-> st.invoked, static |-> st.out,
            resultInvoked |-> FALSE, resultArgs |-> NoArgs]
      ELSE [stage |-> "result", out |-> ro, bound |-> "",
            memo |-> st.memo, staticInvoked |-> st.invoked, static |-> st.out,
            resultInvoked |-> TRUE,
            resultArgs |-> ResultArgs(options, st.out.val, arg,
                                      DynamicValues(RestLength(nargs)))]

(***************************************************************************)
(* One call of the function bound to options, with nargs arguments of      *)
(* which the first is arg (undefined when there is none); so and ro are    *)
(* what computeStaticHelper and computeResultHelper do if they are         *)
(* invoked.  stage says how far the call got: "configure" (line 163),      *)
(* "validation" (requireValidTagInputs threw), "static" (staticStateFor    *)
(* threw) or "result" (computeResultHelper was applied); out is what the   *)
(* call returned or threw, bound the options of the function a Configure   *)
(* call returns, static what staticStateFor returned or threw.             *)
(***************************************************************************)
usingOptionsCall(options, nargs, arg, so, ro, h, memo) ==
  LET invalid == requireValidTagInputs(h, arg, RestLength(nargs))
      st == staticStateFor(h, memo, arg, so)
  IN  IF IsConfigureCall(nargs, arg)
      THEN [stage |-> "configure", out |-> Returned("function"), bound |-> arg,
            memo |-> memo, staticInvoked |-> FALSE, static |-> NotInvoked,
            resultInvoked |-> FALSE, resultArgs |-> NoArgs]
      ELSE IF invalid # NoThrow
      THEN [stage |-> "validation", out |-> Threw(invalid), bound |-> "",
            memo |-> memo, staticInvoked |-> FALSE, static |-> NotInvoked,
            resultInvoked |-> FALSE, resultArgs |-> NoArgs]
      ELSE IF st.out.threw
      THEN [stage |-> "static", out |-> st.out, bound |-> "",
            memo |-> st.memo, staticInvoked |-> st.invoked, static |-> st.out,
            resultInvoked |-> FALSE, resultArgs |-> NoArgs]
      ELSE [stage |-> "result", out |-> ro, bound |-> "",
            memo |-> st.memo, staticInvoked |-> st.invoked, static |-> st.out,
            resultInvoked |-> TRUE,
            resultArgs |-> ResultArgs(options, st.out.val, arg,
                                      DynamicValues(RestLength(nargs)))]

\* Faulty variant: the options live in one variable that all functions share.
usingOptionsShared(functions, options) ==
  [i \in 1..(Len(functions) + 1) |-> options]

\* usingOptions(options): the new function, added to those that exist
usingOptions(functions, options) == Append(functions, options)

----------------------------------------------------------------------------
(* What the helpers of the caller may do *)

StaticReturns == {"0", "state"}
StaticThrows == {ErrBoom, ErrEmpty, Null}
StaticOutcomes ==
  {Returned(v) : v \in StaticReturns} \cup {Threw(e) : e \in StaticThrows}

ResultOutcomes == {Returned("r1"), Threw(ErrResult)}

\* the options objects of the tag functions: {} for the base function, then a
\* new object for each Configure call
OptionNames == <<EmptyObject, OptionsA, OptionsB>>

----------------------------------------------------------------------------
(* State *)

(***************************************************************************)
(* last: the most recent call.  fn, nargs, arg: the function called, the   *)
(* number of arguments and the first of them; stage, out, staticInvoked,   *)
(* static, resultInvoked, resultArgs: as usingOptionsCall says; resultOut: *)
(* what computeResultHelper did; newFn: the function a Configure call      *)
(* made; memoizable: arg and arg.raw were frozen when the call was made.   *)
(***************************************************************************)
NoCall ==
  [stage |-> "none", fn |-> 0, nargs |-> 0, arg |-> "", out |-> NotInvoked,
   newFn |-> 0, memoizable |-> FALSE,
   staticInvoked |-> FALSE, static |-> NotInvoked,
   resultInvoked |-> FALSE, resultOut |-> NotInvoked, resultArgs |-> NoArgs]

\* no library function has been applied
NoProbe == [fn |-> "none"]

\* an array the caller builds: const a = ['foo']; a.raw = ['foo']
FreshArray ==
  [elems |-> <<"foo">>, frozen |-> FALSE, raw |-> RawArray(<<"foo">>, FALSE)]

\* the template object of tag`foo${x}foo`
TemplateObject ==
  [elems |-> <<"foo", "foo">>, frozen |-> TRUE, raw |-> RawArray(<<"foo", "foo">>, TRUE)]

Init ==
  /\ heap = [s \in Identities |-> IF s = "s1" THEN FreshArray ELSE TemplateObject]
  /\ memoTable = << >>
  /\ fns = <<EmptyObject>>          \* line 174: usingOptions({})
  /\ last = NoCall
  /\ staticCalls = [s \in Identities |-> 0]
  /\ firstStatic = [s \in Identities |-> "none"]
  /\ probe = NoProbe

(***************************************************************************)
(* A call fn(arg, v1, ..., vk) of tag function fn (nargs = 0: fn()).       *)
(***************************************************************************)
TagCall(fn, nargs, arg, so, ro) ==
  \E r \in {usingOptionsCall(fns[fn], nargs, arg, so, ro, heap, memoTable)} :
  LET memoizable == IsArray(arg) /\ canMemoize(heap, arg)
      counted == r.staticInvoked /\ memoizable
  IN  /\ r.stage = "configure" => Len(fns) < Len(OptionNames)
      /\ counted => staticCalls[arg] < MaxCalls
      /\ fns' = IF r.stage = "configure" THEN usingOptions(fns, r.bound) ELSE fns
      /\ memoTable' = r.memo
      /\ last' = [stage |-> r.stage, fn |-> fn, nargs |-> nargs, arg |-> arg,
                  out |-> r.out,
                  newFn |-> IF r.stage = "configure" THEN Len(fns) + 1 ELSE 0,
                  memoizable |-> memoizable,
                  staticInvoked |-> r.staticInvoked, static |-> r.static,
                  resultInvoked |-> r.resultInvoked,
                  resultOut |-> IF r.resultInvoked THEN ro ELSE NotInvoked,
                  resultArgs |-> r.resultArgs]
      /\ staticCalls' = IF counted THEN [staticCalls EXCEPT ![arg] = @ + 1]
                        ELSE staticCalls
      /\ firstStatic' =
           IF counted /\ firstStatic[arg] = "none"
           THEN [firstStatic EXCEPT ![arg] = IF so.threw THEN "threw" ELSE "returned"]
           ELSE firstStatic
      /\ UNCHANGED <<heap, probe>>

\* strings.push('foo'); strings.raw.push('foo') on arrays that are not frozen
Push(s) ==
  /\ ~heap[s].frozen
  /\ heap[s].raw.kind = "array"
  /\ ~heap[s].raw.frozen
  /\ Len(heap[s].elems) < MaxLen
  /\ heap' = [heap EXCEPT ![s].elems = Append(@, "foo"),
                          ![s].raw.elems = Append(@, "foo")]
  /\ UNCHANGED <<memoTable, fns, last, staticCalls, firstStatic, probe>>

\* Object.freeze(strings)
Freeze(s) ==
  /\ ~heap[s].frozen
  /\ heap' = [heap EXCEPT ![s].frozen = TRUE]
  /\ UNCHANGED <<memoTable, fns, last, staticCalls, firstStatic, probe>>

\* Object.freeze(strings.raw)
FreezeRaw(s) ==
  /\ heap[s].raw.kind = "array"
  /\ ~heap[s].raw.frozen
  /\ heap' = [heap EXCEPT ![s].raw.frozen = TRUE]
  /\ UNCHANGED <<memoTable, fns, last, staticCalls, firstStatic, probe>>

\* the helper outcomes to consider for a call: those of the helpers it reaches
StaticChoices(nargs, arg) ==
  IF /\ ~IsConfigureCall(nargs, arg)
     /\ requireValidTagInputs(heap, arg, RestLength(nargs)) = NoThrow
     /\ staticStateFor(heap, memoTable, arg, NotInvoked).invoked
  THEN StaticOutcomes ELSE {NotInvoked}

ResultChoices(nargs, arg, so) ==
  IF /\ ~IsConfigureCall(nargs, arg)
     /\ requireValidTagInputs(heap, arg, RestLength(nargs)) = NoThrow
     /\ ~staticStateFor(heap, memoTable, arg, so).out.threw
  THEN ResultOutcomes ELSE {NotInvoked}

\* fn`...${v1}...`, fn(strings, v1, ...)
Invoke ==
  \E arg \in Identities, nargs \in 1..MaxLen :
    \E so \in StaticChoices(nargs, arg) :
      \E ro \in ResultChoices(nargs, arg, so), fn \in DOMAIN fns :
        TagCall(fn, nargs, arg, so, ro)

\* fn(options)
Configure ==
  \E fn \in DOMAIN fns :
    /\ Len(fns) < Len(OptionNames)
    /\ TagCall(fn, 1, OptionNames[Len(fns) + 1], NotInvoked, NotInvoked)

Next ==
  \/ Invoke
  \/ Configure
  \/ \E s \in Identities : Push(s)
  \/ \E s \in Identities : Freeze(s)
  \/ \E s \in Identities : FreezeRaw(s)

Spec == Init /\ [][Next]_vars

----------------------------------------------------------------------------
(* One call of the base function, on any array the caller can have built  *)

\* the values of the raw property of an array
RawValues ==
  {NoRaw} \cup {RawObject(e) : e \in SeqsUpTo(ElemVals, MaxLen)}
          \cup {RawArray(e, fz) : e \in SeqsUpTo(ElemVals, MaxLen), fz \in BOOLEAN}

\* the arrays the caller can have built before the call
ArrayObjects ==
  [elems : SeqsUpTo(ElemVals, MaxLen), frozen : BOOLEAN, raw : RawValues]

InitCall ==
  /\ heap \in [Identities -> ArrayObjects]
  /\ heap["s2"] = TemplateObject
  /\ memoTable = << >>
  /\ fns = <<EmptyObject>>
  /\ last = NoCall
  /\ staticCalls = [s \in Identities |-> 0]
  /\ firstStatic = [s \in Identities |-> "none"]
  /\ probe = NoProbe

\* tag(), tag(arg), tag(arg, v1), ...: any first argument, any number of arguments
AnyCall ==
  /\ last.stage = "none"
  /\ \E nargs \in 0..(MaxLen + 1) :
       \E arg \in (IF nargs = 0 THEN {Undefined} ELSE Identities \cup PlainVals) :
         \E so \in StaticChoices(nargs, arg) :
           \E ro \in ResultChoices(nargs, arg, so) :
             TagCall(1, nargs, arg, so, ro)

NextCall == AnyCall

SpecCall == InitCall /\ [][NextCall]_vars

----------------------------------------------------------------------------
(* trimCommonWhitespaceFromLines.  A chunk is a sequence of characters:    *)
(* LF and CR of the line terminators, SP and TAB of the whitespace, the    *)
(* backslash, and the letter a for every other character.                  *)

LF == "LF"
CR == "CR"
SP == "SP"
TAB == "TAB"
BACKSLASH == "BACKSLASH"
Letter == "a"

\* the class [\n\r\u2028\u2029] of LINE_TERMINATORS
IsLineTerminator(c) == c \in {LF, CR}

\* the class [\t\u000B\u000C \u00A0\uFeFF] of WS_RUN
IsWhitespace(c) == c \in {SP, TAB}

\* s.substring(i - 1): the characters of s from the i-th on
From(s, i) == SubSeq(s, i, Len(s))

\* LINE_TERMINATORS.exec(chunk): the chunk has a line terminator somewhere
LINE_TERMINATORS(chunk) == \E i \in 1..Len(chunk) : IsLineTerminator(chunk[i])

\* String(chunk).split(LINE_TERMINATORS): the pieces between the maximal runs
\* of line terminators.  cur is the piece being read, inRun says that the
\* character before position i was a line terminator.
RECURSIVE SplitFrom(_, _, _, _)
SplitFrom(chunk, i, cur, inRun) ==
  IF i > Len(chunk) THEN <<cur>>
  ELSE IF IsLineTerminator(chunk[i])
  THEN IF inRun THEN SplitFrom(chunk, i + 1, <<>>, TRUE)
       ELSE <<cur>> \o SplitFrom(chunk, i + 1, <<>>, TRUE)
  ELSE SplitFrom(chunk, i + 1, Append(cur, chunk[i]), FALSE)

split(chunk) == SplitFrom(chunk, 1, <<>>, FALSE)

\* WS_RUN.exec(line)[0]: the whitespace at the start of line
RECURSIVE WS_RUN(_)
WS_RUN(line) ==
  IF line # <<>> /\ IsWhitespace(Head(line))
  THEN <<Head(line)>> \o WS_RUN(Tail(line))
  ELSE <<>>

\* Faulty variant: the shorter of the two, whatever their characters.
commonPrefixOfShorter(a, b) == IF Len(a) <= Len(b) THEN a ELSE b

\* commonPrefixOf(a, b): the longest prefix of a that is also a prefix of b
RECURSIVE commonPrefixOf(_, _)
commonPrefixOf(a, b) ==
  IF a # <<>> /\ b # <<>> /\ Head(a) = Head(b)
  THEN <<Head(a)>> \o commonPrefixOf(Tail(a), Tail(b))
  ELSE <<>>

\* the variable commonPrefix of commonPrefixOfTemplateStrings: null, or a string
NullPrefix == [null |-> TRUE, str |-> <<>>]
PrefixOf(str) == [null |-> FALSE, str |-> str]

\* lines 199-207: the loop over the lines of one chunk, from line lnum on
\* (lines[1] is element 0 of the code), with its break
RECURSIVE ScanLines(_, _, _)
ScanLines(commonPrefix, lines, lnum) ==
  IF lnum > Len(lines) THEN commonPrefix
  ELSE LET prefix == WS_RUN(lines[lnum])
           next == IF commonPrefix.null THEN prefix
                   ELSE commonPrefixOf(commonPrefix.str, prefix)
       IN  IF next = <<>> THEN PrefixOf(next)
           ELSE ScanLines(PrefixOf(next), lines, lnum + 1)

\* lines 195-208: the loop over the chunks, from chunk i on
RECURSIVE ScanChunks(_, _, _)
ScanChunks(commonPrefix, raw, i) ==
  IF i > Len(raw) THEN commonPrefix
  ELSE ScanChunks(ScanLines(commonPrefix, split(raw[i]), 2), raw, i + 1)

\* Faulty variant: every line of a chunk is scanned, the first fragment too.
commonPrefixOfTemplateStringsAllLines(raw) ==
  IF ~LINE_TERMINATORS(raw[1]) THEN <<>>
  ELSE LET Scan[i \in 1..(Len(raw) + 1)] ==
             IF i = 1 THEN NullPrefix
             ELSE ScanLines(Scan[i - 1], split(raw[i - 1]), 1)
       IN  Scan[Len(raw) + 1].str

\* Faulty variant: the test of the first chunk is left out.
commonPrefixOfTemplateStringsAlways(raw) ==
  ScanChunks(NullPrefix, raw, 1).str

\* commonPrefixOfTemplateStrings({ raw, length }); a null result is falsy, as
\* is the empty string
commonPrefixOfTemplateStrings(raw) ==
  IF ~LINE_TERMINATORS(raw[1]) THEN <<>>
  ELSE ScanChunks(NullPrefix, raw, 1).str

\* s starts with prefix
StartsWith(s, prefix) ==
  Len(prefix) <= Len(s) /\ SubSeq(s, 1, Len(prefix)) = prefix

\* the end of the maximal run of line terminators that starts at position i
RECURSIVE RunEnd(_, _)
RunEnd(chunk, i) ==
  IF i < Len(chunk) /\ IsLineTerminator(chunk[i + 1]) THEN RunEnd(chunk, i + 1)
  ELSE i

\* Faulty variant: the pattern without its g flag, which replaces the first
\* match alone.
RECURSIVE ReplaceFirstOnly(_, _, _)
ReplaceFirstOnly(chunk, commonPrefix, i) ==
  IF i > Len(chunk) THEN <<>>
  ELSE IF IsLineTerminator(chunk[i])
          /\ StartsWith(From(chunk, RunEnd(chunk, i) + 1), commonPrefix)
  THEN SubSeq(chunk, i, RunEnd(chunk, i))
         \o From(chunk, RunEnd(chunk, i) + 1 + Len(commonPrefix))
  ELSE <<chunk[i]>> \o ReplaceFirstOnly(chunk, commonPrefix, i + 1)

\* chunk.replace(prefixPattern, '$1') from position i on, where prefixPattern
\* is /([\n\r\u2028\u2029]+)commonPrefix/g and commonPrefix is whitespace
RECURSIVE ReplaceFrom(_, _, _)
ReplaceFrom(chunk, commonPrefix, i) ==
  IF i > Len(chunk) THEN <<>>
  ELSE IF IsLineTerminator(chunk[i])
          /\ StartsWith(From(chunk, RunEnd(chunk, i) + 1), commonPrefix)
  THEN SubSeq(chunk, i, RunEnd(chunk, i))
         \o ReplaceFrom(chunk, commonPrefix, RunEnd(chunk, i) + 1 + Len(commonPrefix))
  ELSE <<chunk[i]>> \o ReplaceFrom(chunk, commonPrefix, i + 1)

\* chunk.replace(LINE_TERMINATOR_AT_START, ''): ^(?:\r\n?|[\n\u2028\u2029])
LINE_TERMINATOR_AT_START(chunk) ==
  IF StartsWith(chunk, <<CR, LF>>) THEN From(chunk, 3)
  ELSE IF chunk # <<>> /\ IsLineTerminator(chunk[1]) THEN From(chunk, 2)
  ELSE chunk

\* chunk.replace(LINE_TERMINATOR_AT_END, ''): (?:\r\n?|[\n\r\u2028\u2029])$
LINE_TERMINATOR_AT_END(chunk) ==
  LET n == Len(chunk)
  IN  IF n >= 2 /\ chunk[n - 1] = CR /\ chunk[n] = LF THEN SubSeq(chunk, 1, n - 2)
      ELSE IF n >= 1 /\ IsLineTerminator(chunk[n]) THEN SubSeq(chunk, 1, n - 1)
      ELSE chunk

\* the characters that the escapes of cook produce or read
BS == "BS"
VT == "VT"
FF == "FF"
NUL == "NUL"

\* the digits of parseInt in base 16, by value
HexChars == <<"0", "1", "2", "3", "4", "5", "6", "7", "8", "9",
              "a", "b", "c", "d", "e", "f">>
UpperHexChars == <<"A", "B", "C", "D", "E", "F">>

\* [0-9A-Fa-f]
HexDigits ==
  {HexChars[i] : i \in DOMAIN HexChars}
    \cup {UpperHexChars[i] : i \in DOMAIN UpperHexChars}

\* [0-7]
OctalDigits == {HexChars[i] : i \in 1..8}

\* the value of one digit
DigitValue(c) ==
  IF \E i \in DOMAIN HexChars : HexChars[i] = c
  THEN (CHOOSE i \in DOMAIN HexChars : HexChars[i] = c) - 1
  ELSE (CHOOSE i \in DOMAIN UpperHexChars : UpperHexChars[i] = c) + 9

\* the code units of the characters that have a name in the model
CharCodes ==
  [c \in {NUL, BS, TAB, LF, VT, FF, CR, SP, BACKSLASH, "/",
          "0", "1", "2", "3", "4", "5", "6", "7", "8", "9",
          "a", "b", "f", "g", "n", "r", "t", "u", "v", "x"} |->
     CASE c = NUL -> 0 [] c = BS -> 8 [] c = TAB -> 9 [] c = LF -> 10
       [] c = VT -> 11 [] c = FF -> 12 [] c = CR -> 13 [] c = SP -> 32
       [] c = "/" -> 47 [] c = BACKSLASH -> 92
       [] c = "a" -> 97 [] c = "b" -> 98 [] c = "f" -> 102 [] c = "g" -> 103
       [] c = "n" -> 110 [] c = "r" -> 114 [] c = "t" -> 116 [] c = "u" -> 117
       [] c = "v" -> 118 [] c = "x" -> 120
       [] OTHER -> 48 + DigitValue(c)]

\* String.fromCharCode(n): the character with code unit n, by its name in the
\* model when it has one
fromCharCode(n) ==
  IF \E c \in DOMAIN CharCodes : CharCodes[c] = n % 65536
  THEN CHOOSE c \in DOMAIN CharCodes : CharCodes[c] = n % 65536
  ELSE "U+" \o ToString(n % 65536)

\* parseInt(digits, base) for digits of that base: NaN when there is none
NaN == [nan |-> TRUE, n |-> 0]
RECURSIVE ParseFrom(_, _, _)
ParseFrom(digits, base, acc) ==
  IF digits = <<>> THEN acc
  ELSE ParseFrom(Tail(digits), base, acc * base + DigitValue(Head(digits)))

parseInt(digits, base) ==
  IF digits = <<>> THEN NaN ELSE [nan |-> FALSE, n |-> ParseFrom(digits, base, 0)]

\* how many of the first max characters of s are digits, counted from the
\* start of s up to the first that is not: a greedy {0,max}
RECURSIVE DigitRun(_, _, _)
DigitRun(s, max, digits) ==
  IF max > 0 /\ s # <<>> /\ Head(s) \in digits
  THEN 1 + DigitRun(Tail(s), max - 1, digits)
  ELSE 0

(***************************************************************************)
(* ESCAPE_SEQUENCE at the start of trv: the length of its match, 0 when it *)
(* does not match there.  The alternatives, in the order of line 283:      *)
(* [^ux0-7\r], x[0-9A-Fa-f]{0,2}, u[0-9A-Fa-f]{4}, [0-3][0-7]{0,2},         *)
(* [4-7][0-7]?, \r\n?                                                       *)
(***************************************************************************)
ESCAPE_SEQUENCE(trv) ==
  IF Len(trv) < 2 \/ trv[1] # BACKSLASH THEN 0
  ELSE IF trv[2] = "x"
  THEN 2 + DigitRun(From(trv, 3), 2, HexDigits)
  ELSE IF trv[2] = "u"
  THEN IF DigitRun(From(trv, 3), 4, HexDigits) = 4 THEN 6 ELSE 0
  ELSE IF trv[2] \in {"0", "1", "2", "3"}
  THEN 2 + DigitRun(From(trv, 3), 2, OctalDigits)
  ELSE IF trv[2] \in {"4", "5", "6", "7"}
  THEN 2 + DigitRun(From(trv, 3), 1, OctalDigits)
  ELSE IF trv[2] = CR
  THEN IF Len(trv) >= 3 /\ trv[3] = LF THEN 3 ELSE 2
  ELSE 2

\* the three kinds of SV_TABLE[chr]: a string, a function of the escape
\* sequence (the base of its digits and where they start), or undefined
SvString(s) == [kind |-> "string", str |-> s, base |-> 0, from |-> 0]
SvFunction(base, from) == [kind |-> "function", str |-> <<>>, base |-> base, from |-> from]
SvUndefined == [kind |-> "undefined", str |-> <<>>, base |-> 0, from |-> 0]

\* Faulty variant: the table without its entry for v.
SV_TABLE_WithoutV(chr) ==
  CASE chr = "b" -> SvString(<<BS>>)
    [] chr = "t" -> SvString(<<TAB>>)
    [] chr = "n" -> SvString(<<LF>>)
    [] chr = "f" -> SvString(<<FF>>)
    [] chr = "r" -> SvString(<<CR>>)
    [] chr \in {LF, CR} -> SvString(<<>>)
    [] chr \in {"x", "u"} -> SvFunction(16, 3)
    [] chr \in OctalDigits -> SvFunction(8, 2)
    [] OTHER -> SvUndefined

\* SV_TABLE[chr], lines 287-310
SV_TABLE(chr) ==
  CASE chr = "b" -> SvString(<<BS>>)
    [] chr = "t" -> SvString(<<TAB>>)
    [] chr = "n" -> SvString(<<LF>>)
    [] chr = "v" -> SvString(<<VT>>)
    [] chr = "f" -> SvString(<<FF>>)
    [] chr = "r" -> SvString(<<CR>>)
    [] chr \in {LF, CR} -> SvString(<<>>)      \* line continuations
    [] chr \in {"x", "u"} -> SvFunction(16, 3)  \* parseInt(x.substr(2), 16)
    [] chr \in OctalDigits -> SvFunction(8, 2)    \* parseInt(x.substr(1), 8)
    [] OTHER -> SvUndefined

\* lines 325-335: what replaces the escape sequence escSeq
Replacement(escSeq) ==
  LET chr == escSeq[2]
      repl == SV_TABLE(chr)
  IN  IF repl.kind = "undefined" THEN <<chr>>
      ELSE IF repl.kind = "function"
      THEN LET parsed == parseInt(From(escSeq, repl.from), repl.base)
           IN  <<fromCharCode(IF parsed.nan THEN 0 ELSE parsed.n)>>
      ELSE repl.str

\* cook(trv): trv.replace(ESCAPE_SEQUENCE, ...), which replaces each match
\* from the left and copies the characters between the matches
RECURSIVE cook(_)
cook(trv) ==
  IF trv = <<>> THEN <<>>
  ELSE LET n == ESCAPE_SEQUENCE(trv)
       IN  IF n = 0 THEN <<Head(trv)>> \o cook(Tail(trv))
           ELSE Replacement(SubSeq(trv, 1, n)) \o cook(From(trv, n + 1))

\* the options of trimCommonWhitespaceFromLines, after the defaults of lines
\* 233-236 are applied
TrimOptions == [trimEolAtStart : BOOLEAN, trimEolAtEnd : BOOLEAN]

\* Faulty variant: trimEolAtEnd is applied to every chunk.
TrimChunksEveryEnd(raw, commonPrefix, options) ==
  LET length == Len(raw)
      dedented == [i \in 1..length |->
                     IF commonPrefix # <<>> THEN ReplaceFrom(raw[i], commonPrefix, 1)
                     ELSE raw[i]]
      atStart == [i \in 1..length |->
                    IF options.trimEolAtStart /\ i = 1
                    THEN LINE_TERMINATOR_AT_START(dedented[i]) ELSE dedented[i]]
  IN  [i \in 1..length |->
         IF options.trimEolAtEnd
         THEN LINE_TERMINATOR_AT_END(atStart[i]) ELSE atStart[i]]

\* lines 258-266: trimmedRaw, the chunks of raw without the common prefix
\* after their line terminators and, when the options say so, without the
\* line terminator at the start of the first and at the end of the last
TrimChunks(raw, commonPrefix, options) ==
  LET length == Len(raw)
      dedented == [i \in 1..length |->
                     IF commonPrefix # <<>> THEN ReplaceFrom(raw[i], commonPrefix, 1)
                     ELSE raw[i]]              \* /(?!)/ matches nowhere
      atStart == [i \in 1..length |->
                    IF options.trimEolAtStart /\ i = 1
                    THEN LINE_TERMINATOR_AT_START(dedented[i]) ELSE dedented[i]]
  IN  [i \in 1..length |->
         IF options.trimEolAtEnd /\ i = length
         THEN LINE_TERMINATOR_AT_END(atStart[i]) ELSE atStart[i]]

\* Faulty variant: Object.freeze(trimmedRaw) is left out.
TrimmedCookedRawNotFrozen(trimmedRaw) ==
  [elems |-> [i \in 1..Len(trimmedRaw) |-> cook(trimmedRaw[i])],
   frozen |-> TRUE,
   raw |-> RawArray(trimmedRaw, FALSE)]

\* lines 267-271: trimmedCooked, with trimmedRaw as its raw, both frozen
TrimmedCooked(trimmedRaw) ==
  [elems |-> [i \in 1..Len(trimmedRaw) |-> cook(trimmedRaw[i])],
   frozen |-> TRUE,
   raw |-> RawArray(trimmedRaw, TRUE)]

\* Faulty variant: without the fast path, a new array is made in every case.
trimCommonWhitespaceFromLinesAlwaysCopies(templateStrings, options) ==
  LET raw == templateStrings.raw.elems
      commonPrefix == commonPrefixOfTemplateStrings(raw)
  IN  [same |-> FALSE,
       value |-> TrimmedCooked(TrimChunks(raw, commonPrefix, options))]

(***************************************************************************)
(* trimCommonWhitespaceFromLines(templateStrings, options).  same: the     *)
(* value returned is the object templateStrings (the fast path of line     *)
(* 252); otherwise it is a new array.                                      *)
(***************************************************************************)
trimCommonWhitespaceFromLines(templateStrings, options) ==
  LET raw == templateStrings.raw.elems
      commonPrefix == commonPrefixOfTemplateStrings(raw)
  IN  IF commonPrefix = <<>> /\ ~options.trimEolAtStart /\ ~options.trimEolAtEnd
      THEN [same |-> TRUE, value |-> templateStrings]
      ELSE [same |-> FALSE,
            value |-> TrimmedCooked(TrimChunks(raw, commonPrefix, options))]

\* the characters of the raw chunks given to the trimmer
Chars == {LF, CR, SP, TAB, Letter}

\* the raw chunks of a template with one or two chunks
RawTemplates ==
  {<<c>> : c \in SeqsUpTo(Chars, MaxChars)} \cup PairsUpTo(Chars, MaxChars)

\* the array of a template with these raw chunks: the template object of the
\* engine (frozen), or an array with the same content built by the caller
TemplateArray(raw, frozen) ==
  [elems |-> [i \in 1..Len(raw) |-> cook(raw[i])],
   frozen |-> frozen,
   raw |-> RawArray(raw, frozen)]

InitTrim ==
  /\ \E raw \in RawTemplates, frozen \in BOOLEAN :
       heap = [s \in Identities |->
                 IF s = "s1" THEN TemplateArray(raw, frozen) ELSE TemplateObject]
  /\ memoTable = << >>
  /\ fns = <<EmptyObject>>
  /\ last = NoCall
  /\ staticCalls = [s \in Identities |-> 0]
  /\ firstStatic = [s \in Identities |-> "none"]
  /\ probe = NoProbe

\* trimCommonWhitespaceFromLines(strings, options), options given or not
Trim ==
  /\ probe.fn = "none"
  /\ \E options \in TrimOptions, given \in BOOLEAN :
       /\ ~given => options = [trimEolAtStart |-> FALSE, trimEolAtEnd |-> FALSE]
       /\ \E r \in {trimCommonWhitespaceFromLines(heap["s1"], options)} :
            probe' = [fn |-> "trimCommonWhitespaceFromLines",
                      options |-> options, given |-> given,
                      same |-> r.same, value |-> r.value]
  /\ UNCHANGED <<heap, memoTable, fns, last, staticCalls, firstStatic>>

NextTrim == Trim

SpecTrim == InitTrim /\ [][NextTrim]_vars

----------------------------------------------------------------------------
(* trimCommonWhitespaceFromLines, applied once to a template object whose  *)
(* raw chunks have backslashes                                             *)

\* the characters of the raw chunks: those of a line continuation, a space
\* and a letter
EscapeChars == {LF, CR, SP, BACKSLASH, Letter}

\* the raw chunks of a template with one or two chunks
EscapeTemplates ==
  {<<c>> : c \in SeqsUpTo(EscapeChars, MaxChars)} \cup PairsUpTo(EscapeChars, MaxChars)

InitEscape ==
  /\ \E raw \in EscapeTemplates :
       heap = [s \in Identities |->
                 IF s = "s1" THEN TemplateArray(raw, TRUE) ELSE TemplateObject]
  /\ memoTable = << >>
  /\ fns = <<EmptyObject>>
  /\ last = NoCall
  /\ staticCalls = [s \in Identities |-> 0]
  /\ firstStatic = [s \in Identities |-> "none"]
  /\ probe = NoProbe

SpecEscape == InitEscape /\ [][NextTrim]_vars

----------------------------------------------------------------------------
(* trimCommonWhitespaceFromLines, applied once to a template object of one *)
(* chunk with several lines                                                *)

\* the characters of the lines: a line break, a space and a letter
LineChars == {LF, SP, Letter}

InitLines ==
  /\ \E chunk \in SeqsUpTo(LineChars, MaxLine) :
       heap = [s \in Identities |->
                 IF s = "s1" THEN TemplateArray(<<chunk>>, TRUE) ELSE TemplateObject]
  /\ memoTable = << >>
  /\ fns = <<EmptyObject>>
  /\ last = NoCall
  /\ staticCalls = [s \in Identities |-> 0]
  /\ firstStatic = [s \in Identities |-> "none"]
  /\ probe = NoProbe

SpecLines == InitLines /\ [][NextTrim]_vars

----------------------------------------------------------------------------
(* cook, applied once to a raw chunk *)

\* the characters of the numeric escapes: x, u, an octal digit of 0-3 and
\* one of 4-7, both hex digits too
NumericChars == {BACKSLASH, "x", "u", "1", "4"}

\* the characters of the single-character escapes: the six mnemonics and a
\* character without a meaning of its own
SimpleChars == {BACKSLASH, "b", "t", "n", "v", "f", "r", "/"}

\* the raw chunks given to cook
CookInputs ==
  SeqsUpTo(NumericChars, MaxEscape) \cup SeqsUpTo(SimpleChars, MaxChars)

InitCook ==
  /\ heap = [s \in Identities |-> TemplateObject]
  /\ memoTable = << >>
  /\ fns = <<EmptyObject>>
  /\ last = NoCall
  /\ staticCalls = [s \in Identities |-> 0]
  /\ firstStatic = [s \in Identities |-> "none"]
  /\ \E trv \in CookInputs : probe = [fn |-> "input", trv |-> trv]

\* cook(trv)
Cook ==
  /\ probe.fn = "input"
  /\ probe' = [fn |-> "cook", trv |-> probe.trv, tv |-> cook(probe.trv)]
  /\ UNCHANGED <<heap, memoTable, fns, last, staticCalls, firstStatic>>

NextCook == Cook

SpecCook == InitCook /\ [][NextCook]_vars

----------------------------------------------------------------------------
(* TypedString *)

\* String(val) for the values of the model
String(val) ==
  CASE val = Num123 -> "123"
    [] val = EmptyObject -> "[object Object]"
    [] val = Undefined -> "undefined"
    [] val = Null -> "null"
    [] OTHER -> val           \* a string

\* the TypeError of a write to a property that is not writable, or of a new
\* definition of one that is not configurable
TypeErrorReadOnly == "TypeError(Cannot assign to read only property)"

\* Faulty variant: the property is defined writable.
TypedStringWritable(content) ==
  [content |-> String(content), writable |-> TRUE, configurable |-> FALSE]

\* new TypedString(content), lines 346-350
TypedString(content) ==
  [content |-> String(content), writable |-> FALSE, configurable |-> FALSE]

\* toString(), lines 351-353
toString(this) == Returned(this.content)

\* instance.content = val, in strict code or not
AssignContent(this, val, strict) ==
  IF this.writable
  THEN [this |-> [this EXCEPT !.content = val], out |-> Returned(val)]
  ELSE [this |-> this,
        out |-> IF strict THEN Threw(TypeErrorReadOnly) ELSE Returned(val)]

\* Object.defineProperty(instance, 'content', { value: val })
DefineContent(this, val) ==
  IF this.configurable \/ this.writable
  THEN [this |-> [this EXCEPT !.content = val], out |-> Returned("instance")]
  ELSE [this |-> this,
        out |-> IF val = this.content THEN Returned("instance")
                ELSE Threw(TypeErrorReadOnly)]

\* the values a TypedString is made of, and those written to its content
ContentValues == {"foo", "", "/", "0", Num123, Null, Undefined, EmptyObject}
AssignedValues == {"foo", "bar", Num123, Null}

InitTyped ==
  /\ heap = [s \in Identities |-> TemplateObject]
  /\ memoTable = << >>
  /\ fns = <<EmptyObject>>
  /\ last = NoCall
  /\ staticCalls = [s \in Identities |-> 0]
  /\ firstStatic = [s \in Identities |-> "none"]
  /\ probe = NoProbe

\* const instance = new TypedString(given)
Construct ==
  /\ probe.fn = "none"
  /\ \E given \in ContentValues :
       probe' = [fn |-> "TypedString", given |-> given, this |-> TypedString(given),
                 op |-> "new", arg |-> "", strict |-> FALSE, out |-> NotInvoked]
  /\ UNCHANGED <<heap, memoTable, fns, last, staticCalls, firstStatic>>

\* String(instance)
CallToString ==
  /\ probe.fn = "TypedString"
  /\ probe' = [probe EXCEPT !.op = "toString", !.arg = "", !.strict = FALSE,
                            !.out = toString(probe.this)]
  /\ UNCHANGED <<heap, memoTable, fns, last, staticCalls, firstStatic>>

\* instance.content = val
Assign ==
  /\ probe.fn = "TypedString"
  /\ \E val \in AssignedValues, strict \in BOOLEAN :
       \E r \in {AssignContent(probe.this, val, strict)} :
         probe' = [probe EXCEPT !.op = "assign", !.arg = val, !.strict = strict,
                                !.this = r.this, !.out = r.out]
  /\ UNCHANGED <<heap, memoTable, fns, last, staticCalls, firstStatic>>

\* Object.defineProperty(instance, 'content', { value: val })
Define ==
  /\ probe.fn = "TypedString"
  /\ \E val \in AssignedValues :
       \E r \in {DefineContent(probe.this, val)} :
         probe' = [probe EXCEPT !.op = "define", !.arg = val, !.strict = FALSE,
                                !.this = r.this, !.out = r.out]
  /\ UNCHANGED <<heap, memoTable, fns, last, staticCalls, firstStatic>>

NextTyped ==
  \/ Construct
  \/ CallToString
  \/ Assign
  \/ Define

SpecTyped == InitTyped /\ [][NextTyped]_vars

----------------------------------------------------------------------------
(* The memo table is a WeakMap (line 126): the engine keeps an entry for   *)
(* as long as its key is reachable otherwise, and the value of an entry is *)
(* reachable through the table only while its key is.  probe.roots are the *)
(* chunk sequences that the caller of the tag function still refers to,    *)
(* probe.collected those that the engine has reclaimed.                    *)

\* the objects reached in at most n steps from those of the set from, where
\* the value of an entry is reached from its key
RECURSIVE ReachedFrom(_, _, _)
ReachedFrom(from, memo, n) ==
  IF n = 0 THEN from
  ELSE ReachedFrom(
         from \cup ({memo[k].pass : k \in from \cap DOMAIN memo} \cap Identities),
         memo, n - 1)

\* Faulty variant: the table is a Map, which refers to its keys itself.
ResidentWithMap(roots, memo) ==
  ReachedFrom(roots \cup DOMAIN memo, memo, Cardinality(Identities))

\* the chunk sequences that stay resident: those that the caller refers to,
\* and those that the static state of a resident chunk sequence refers to
Resident(roots, memo) == ReachedFrom(roots, memo, Cardinality(Identities))

\* memo without the entries of the keys in gone
MemoWithout(memo, gone) == [k \in DOMAIN memo \ gone |-> memo[k]]

\* what computeStaticHelper may do for the chunk sequence arg: return a state
\* that refers to no chunk sequence, return a chunk sequence (arg or
\* another), or throw
WeakStaticOutcomes == {Returned("state"), Threw(ErrBoom)} \cup {Returned(s) : s \in Identities}

InitWeak ==
  /\ heap = [s \in Identities |-> TemplateObject]
  /\ memoTable = << >>
  /\ fns = <<EmptyObject>>
  /\ last = NoCall
  /\ staticCalls = [s \in Identities |-> 0]
  /\ firstStatic = [s \in Identities |-> "none"]
  /\ probe = [fn |-> "weak", roots |-> Identities, collected |-> {}]

\* fn`...${v1}...` on a chunk sequence that the caller refers to
InvokeHeld ==
  /\ probe.fn = "weak"
  /\ \E arg \in probe.roots, so \in WeakStaticOutcomes, ro \in ResultOutcomes :
       TagCall(1, 2, arg, so, ro)

\* the caller drops its last reference to the chunk sequence s
Drop(s) ==
  /\ probe.fn = "weak"
  /\ s \in probe.roots
  /\ probe' = [probe EXCEPT !.roots = @ \ {s}]
  /\ UNCHANGED <<heap, memoTable, fns, last, staticCalls, firstStatic>>

\* the engine reclaims the chunk sequence s, which is not resident, and the
\* entry of the table that s is the key of
Collect(s) ==
  /\ probe.fn = "weak"
  /\ s \notin probe.collected
  /\ s \notin Resident(probe.roots, memoTable)
  /\ memoTable' = MemoWithout(memoTable, {s})
  /\ probe' = [probe EXCEPT !.collected = @ \cup {s}]
  /\ UNCHANGED <<heap, fns, last, staticCalls, firstStatic>>

NextWeak ==
  \/ InvokeHeld
  \/ \E s \in Identities : Drop(s)
  \/ \E s \in Identities : Collect(s)

SpecWeak == InitWeak /\ [][NextWeak]_vars

----------------------------------------------------------------------------
(* Calls of the tag function made from inside computeStaticHelper.         *)
(* probe.stack has one frame for each call whose computeStaticHelper is    *)
(* running (line 142), the innermost last.                                 *)

\* Faulty variant: an entry is put in the table before computeStaticHelper
\* is called.
staticStateForLookupWithPlaceholder(h, memo, staticStrings) ==
  LET key == MemoLookup(h, memo, staticStrings)
  IN  [key |-> key,
       memo |-> IF key = NoKey /\ canMemoize(h, staticStrings)
                THEN MemoSet(memo, staticStrings, PassEntry(Undefined))
                ELSE memo]

\* lines 133-140 of staticStateFor: the key of the entry found, and the table
\* as it is when computeStaticHelper is called
staticStateForLookup(h, memo, staticStrings) ==
  [key |-> MemoLookup(h, memo, staticStrings), memo |-> memo]

\* lines 141-155 of staticStateFor, once computeStaticHelper did so: the table
\* afterwards and what staticStateFor returns or throws
staticStateForStore(h, memo, staticStrings, so) ==
  LET computed == ComputeStatic(so)
      staticState == computed.entry
  IN  IF computed.died
      THEN [memo |-> memo, out |-> Threw(TypeErrorValue)]
      ELSE [memo |-> IF canMemoize(h, staticStrings)
                     THEN MemoSet(memo, staticStrings, staticState) ELSE memo,
            out |-> IF Truthy(staticState.fail)
                    THEN Threw(IF Truthy(computed.failure) THEN computed.failure
                               ELSE ErrorWith(staticState.fail))
                    ELSE Returned(staticState.pass)]

InitNested ==
  /\ heap = [s \in Identities |-> TemplateObject]
  /\ memoTable = << >>
  /\ fns = <<EmptyObject>>
  /\ last = NoCall
  /\ staticCalls = [s \in Identities |-> 0]
  /\ firstStatic = [s \in Identities |-> "none"]
  /\ probe = [fn |-> "nested", stack |-> <<>>]

\* tag`foo${v1}foo`, from the caller or from inside the computeStaticHelper
\* that is running: with an entry in the table the call runs to its end, and
\* without one it calls computeStaticHelper
EnterCall(arg) ==
  /\ probe.fn = "nested"
  /\ requireValidTagInputs(heap, arg, 1) = NoThrow
  /\ \E e \in {staticStateForLookup(heap, memoTable, arg)} :
       IF e.key # NoKey
       THEN \E ro \in ResultOutcomes : TagCall(1, 2, arg, NotInvoked, ro)
       ELSE /\ Len(probe.stack) < MaxCalls
            /\ staticCalls[arg] < MaxCalls
            /\ memoTable' = e.memo
            /\ probe' = [probe EXCEPT !.stack = Append(@, [arg |-> arg])]
            /\ staticCalls' = [staticCalls EXCEPT ![arg] = @ + 1]
            /\ UNCHANGED <<heap, fns, last, firstStatic>>

\* the computeStaticHelper of the innermost call returns or throws, and the
\* call runs to its end
ReturnFromStatic ==
  /\ probe.fn = "nested"
  /\ probe.stack # <<>>
  /\ \E so \in StaticOutcomes, ro \in ResultOutcomes :
       LET arg == probe.stack[Len(probe.stack)].arg
       IN  \E r \in {staticStateForStore(heap, memoTable, arg, so)} :
             /\ memoTable' = r.memo
             /\ probe' = [probe EXCEPT !.stack = SubSeq(@, 1, Len(@) - 1)]
             /\ last' = [NoCall EXCEPT
                           !.stage = IF r.out.threw THEN "static" ELSE "result",
                           !.fn = 1, !.nargs = 2, !.arg = arg,
                           !.out = IF r.out.threw THEN r.out ELSE ro,
                           !.memoizable = canMemoize(heap, arg),
                           !.staticInvoked = TRUE, !.static = r.out,
                           !.resultInvoked = ~r.out.threw,
                           !.resultOut = IF r.out.threw THEN NotInvoked ELSE ro,
                           !.resultArgs =
                             IF r.out.threw THEN NoArgs
                             ELSE ResultArgs(fns[1], r.out.val, arg, DynamicValues(1))]
             /\ firstStatic' =
                  IF firstStatic[arg] = "none"
                  THEN [firstStatic EXCEPT ![arg] = IF so.threw THEN "threw" ELSE "returned"]
                  ELSE firstStatic
             /\ UNCHANGED <<heap, fns, staticCalls>>

NextNested ==
  \/ \E arg \in Identities : EnterCall(arg)
  \/ ReturnFromStatic

SpecNested == InitNested /\ [][NextNested]_vars

----------------------------------------------------------------------------
(* calledAsTemplateTagQuick and calledAsTemplateTag, applied once to any   *)
(* first argument and argument count                                       *)

\* a raw that is a frozen object, not an array
FrozenRawObject(elems) == [kind |-> "object", elems |-> elems, frozen |-> TRUE]

InitTag ==
  /\ heap \in [Identities ->
                [elems : SeqsUpTo(ElemVals, MaxLen), frozen : BOOLEAN,
                 raw : RawValues \cup {FrozenRawObject(e) : e \in SeqsUpTo(ElemVals, MaxLen)}]]
  /\ heap["s2"] = TemplateObject
  /\ memoTable = << >>
  /\ fns = <<EmptyObject>>
  /\ last = NoCall
  /\ staticCalls = [s \in Identities |-> 0]
  /\ firstStatic = [s \in Identities |-> "none"]
  /\ probe = NoProbe

\* function mayBeATag (...args) { return calledAsTemplateTag(args[0], args.length) }
\* and the same for calledAsTemplateTagQuick, with any argument count
CallTagTest ==
  /\ probe.fn = "none"
  /\ \E firstArgument \in Identities \cup PlainVals \cup {FrozenArrayLike},
        argumentCount \in 0..(MaxLen + 1) :
       probe' = [fn |-> "calledAsTemplateTag",
                 firstArgument |-> firstArgument,
                 argumentCount |-> argumentCount,
                 quick |-> calledAsTemplateTagQuick(heap, firstArgument, argumentCount),
                 full |-> calledAsTemplateTag(heap, firstArgument, argumentCount)]
  /\ UNCHANGED <<heap, memoTable, fns, last, staticCalls, firstStatic>>

NextTag == CallTagTest

SpecTag == InitTag /\ [][NextTag]_vars

----------------------------------------------------------------------------
(* Properties of the memo table (Spec) *)

\* the most recent call was an Invoke that passed validation
ValidInvoke(call) == call.stage \in {"static", "result"}

\* C1: for an array that is frozen and whose raw is frozen, computeStaticHelper
\* is invoked exactly once over all valid Invoke calls, made through whichever
\* of the functions, and that is on the first of them, whatever it returned:
\* once the first invocation has returned, the count stays at 1 and the entry
\* stays in the table, and no valid Invoke of the array precedes an invocation.
C1_StaticInvokedOnce ==
  /\ \A s \in Identities :
       firstStatic[s] = "returned" =>
         /\ staticCalls[s] = 1
         /\ s \in DOMAIN memoTable
         /\ memoTable[s].fail = Undefined
  /\ (ValidInvoke(last) /\ last.memoizable) => staticCalls[last.arg] >= 1
  /\ (ValidInvoke(last) /\ last.memoizable /\ firstStatic[last.arg] = "returned")
       => /\ last.stage = "result"
          /\ last.resultArgs.staticState = memoTable[last.arg].pass

\* C1 witness: a configured function is invoked on a frozen array whose static
\* state, the falsy 0, was computed before: the helper is not invoked.
C1_Witness ==
  /\ last.stage = "result" /\ last.memoizable /\ last.fn > 1
  /\ ~last.staticInvoked
  /\ last.resultArgs.staticState = "0"
  /\ firstStatic[last.arg] = "returned" /\ staticCalls[last.arg] = 1

\* C2 (as stated; the code breaks it): if computeStaticHelper throws on the
\* first Invoke of a frozen array, every later Invoke of that array throws,
\* the count of computeStaticHelper invocations stays at 1 and
\* computeResultHelper is never invoked for it.
C2_FailureIsCached ==
  \A s \in Identities :
    firstStatic[s] = "threw" =>
      /\ staticCalls[s] = 1
      /\ (last.arg = s /\ ValidInvoke(last) /\ last.memoizable)
           => (last.out.threw /\ ~last.resultInvoked)

\* C3 (as stated): an array is used in a valid Invoke, elements are appended
\* to it and to its raw, and it is used in a second valid Invoke: the second
\* call does not invoke computeStaticHelper, and computeResultHelper receives
\* the array as it is now and the second call's dynamic values.
MutatedReuse ==
  /\ ValidInvoke(last) /\ ValidInvoke(last')
  /\ last'.arg = last.arg
  /\ last'.nargs > last.nargs
  /\ heap' = heap

C3_NoRecomputeAfterMutation ==
  [][MutatedReuse =>
       /\ ~last'.staticInvoked
       /\ last'.stage = "result" =>
            /\ last'.resultArgs.staticStrings = last'.arg
            /\ last'.resultArgs.dynamicValues = DynamicValues(last'.nargs - 1)]_vars

\* C3 (amended): in that scenario the second call does invoke
\* computeStaticHelper again (an array that can still be extended is not
\* frozen and was never entered in the table), and computeResultHelper, when
\* reached, receives the array itself, which by then has the length the second
\* call was validated against, and the second call's dynamic values.
C3_RecomputeAfterMutation ==
  [][MutatedReuse =>
       /\ last'.staticInvoked
       /\ ~last.memoizable
       /\ last.arg \notin DOMAIN memoTable
       /\ Len(heap'[last'.arg].elems) = last'.nargs
       /\ last'.stage = "result" =>
            /\ last'.resultArgs.staticStrings = last'.arg
            /\ last'.resultArgs.dynamicValues = DynamicValues(last'.nargs - 1)]_vars

\* C3 witness: the array had one chunk at its last valid Invoke, has two now,
\* and the Invoke just made with it recomputed the static state and went on to
\* computeResultHelper.
C3_Witness ==
  /\ last.arg = "s1" /\ last.nargs = 2 /\ last.stage = "result"
  /\ last.staticInvoked /\ ~heap["s1"].frozen
  /\ last.resultArgs.dynamicValues = <<"v1">>

InvokeAfterResultThrew ==
  /\ last.stage = "result" /\ last.resultOut.threw
  /\ ValidInvoke(last') /\ last'.arg = last.arg
  /\ heap' = heap

\* C5 (as stated): computeResultHelper runs on every valid Invoke whose static
\* state is a success; when it throws, the call throws that error, the table
\* keeps no failure, and the next valid Invoke of the same array invokes
\* computeResultHelper again and computeStaticHelper not.
C5_ResultNeverMemoized ==
  [][/\ (ValidInvoke(last') /\ ~last'.static.threw) => last'.resultInvoked
     /\ last'.resultOut.threw => last'.out = last'.resultOut
     /\ InvokeAfterResultThrew => (last'.resultInvoked /\ ~last'.staticInvoked)]_vars

\* C5 (amended): the same, where the last part is said of arrays that are
\* frozen and whose raw is frozen: their entry in the table is the static
\* state before and after the call in which computeResultHelper threw, and
\* the next valid Invoke of the same array invokes computeResultHelper again
\* and computeStaticHelper not.
C5_ResultNeverMemoizedFrozen ==
  [][/\ (ValidInvoke(last') /\ ~last'.static.threw) => last'.resultInvoked
     /\ last'.resultOut.threw => last'.out = last'.resultOut
     /\ (last'.resultOut.threw /\ last'.memoizable)
          => /\ last'.arg \in DOMAIN memoTable'
             /\ memoTable'[last'.arg] = PassEntry(last'.static.val)
     /\ (InvokeAfterResultThrew /\ last.memoizable)
          => /\ last'.resultInvoked /\ ~last'.staticInvoked
             /\ last.arg \in DOMAIN memoTable
             /\ memoTable' = memoTable
             /\ last'.static = last.static]_vars

\* C5 witness: computeResultHelper threw in an Invoke of a frozen array that
\* found the static state in the table; the entry is still that state and the
\* helper for the static state has been invoked once.
C5_Witness ==
  /\ last.stage = "result" /\ last.memoizable /\ ~last.staticInvoked
  /\ last.out = Threw(ErrResult)
  /\ memoTable[last.arg] = PassEntry("state")
  /\ staticCalls[last.arg] = 1

\* C9: Configure returns a new function bound to the options it was given and
\* changes no function that exists: the base function stays bound to {}, the
\* function made first to its options and the function made second to its
\* own, and each Invoke passes computeResultHelper the options of the function
\* it was made through.
C9_ConfigureBindsNewFunction ==
  /\ \A i \in DOMAIN fns : fns[i] = OptionNames[i]
  /\ last.stage = "configure" =>
       /\ last.newFn = Len(fns) /\ last.newFn # last.fn
       /\ fns[last.newFn] = last.arg
       /\ ~last.out.threw
  /\ last.stage = "result" =>
       /\ last.resultArgs.options = fns[last.fn]
       /\ last.resultArgs.options = OptionNames[last.fn]

\* C9 witness: after both Configure calls, an Invoke through the function made
\* first passes its options.
C9_Witness ==
  /\ Len(fns) = 3 /\ last.stage = "result" /\ last.fn = 2
  /\ last.resultArgs.options = OptionsA
  /\ fns = <<EmptyObject, OptionsA, OptionsB>>

\* two distinct arrays, both frozen with frozen raw, that hold the same chunks
SameTextFrozen(s, t) ==
  /\ s # t
  /\ canMemoize(heap, s) /\ canMemoize(heap, t)
  /\ heap[s].elems = heap[t].elems
  /\ heap[s].raw.elems = heap[t].raw.elems

\* C10: the table is keyed by the identity of the array: of two distinct
\* frozen arrays with the same chunks, each has an entry only from a
\* computation made for itself, a valid Invoke of one finds no entry made for
\* the other, computeStaticHelper is invoked once for each when it returns, and
\* an Invoke of one fails on a stored failure only if its own computation
\* threw.
C10_KeyIsIdentity ==
  \A s, t \in Identities :
    SameTextFrozen(s, t) =>
      /\ s \in DOMAIN memoTable => staticCalls[s] >= 1
      /\ (last.arg = s /\ last.memoizable /\ ValidInvoke(last))
           => staticCalls[s] >= 1
      /\ (firstStatic[s] = "returned" /\ firstStatic[t] = "returned")
           => (staticCalls[s] = 1 /\ staticCalls[t] = 1)
      /\ (last.arg = s /\ last.stage = "static" /\ ~last.staticInvoked)
           => (last.memoizable /\ firstStatic[s] = "threw")
      /\ (s \in DOMAIN memoTable /\ Truthy(memoTable[s].fail))
           => firstStatic[s] = "threw"

\* C10 witness: the caller's array has the chunks of the template object, both
\* are frozen, the table holds a failure for the first and a static state for
\* the second, and an Invoke of the second has just succeeded from the table.
C10_Witness ==
  /\ SameTextFrozen("s1", "s2")
  /\ "s1" \in DOMAIN memoTable /\ memoTable["s1"] = FailEntry("boom")
  /\ "s2" \in DOMAIN memoTable /\ memoTable["s2"] = PassEntry("state")
  /\ last.arg = "s2" /\ last.stage = "result" /\ ~last.staticInvoked

----------------------------------------------------------------------------
(* Properties of one call (SpecCall) *)

\* the call that was made failed in requireValidTagInputs, before any helper
FailedValidation ==
  /\ last.stage = "validation" /\ last.out.threw
  /\ ~last.staticInvoked /\ ~last.resultInvoked

\* some element of elems is not a string
HasNonString(elems) == \E i \in 1..Len(elems) : elems[i] \notin StringVals

\* C6: a call whose first argument is an array fails with an error exactly
\* when the array has no raw that is an array, the array and its raw differ in
\* length, one of them holds an element that is not a string, or the number
\* of dynamic values is not the length of the array minus 1; so a call with an
\* empty array fails, and a call with none of these faults passes validation.
C6_ValidationOfArrays ==
  (last.stage # "none" /\ IsArray(last.arg)) =>
    LET a == heap[last.arg]
        faulty == \/ a.raw.kind # "array"
                  \/ Len(a.elems) # Len(a.raw.elems)
                  \/ HasNonString(a.elems)
                  \/ HasNonString(a.raw.elems)
                  \/ last.nargs - 1 # Len(a.elems) - 1
    IN  /\ faulty <=> FailedValidation
        /\ ~faulty <=> ValidInvoke(last)
        /\ Len(a.elems) = 0 => FailedValidation

\* C6 witness: the array and its raw have one element each and the call
\* passes no dynamic value, but the element of raw is the number 123.
C6_Witness ==
  /\ last.arg = "s1" /\ last.nargs = 1
  /\ heap["s1"].elems = <<"foo">>
  /\ heap["s1"].raw = RawArray(<<Num123>>, FALSE)
  /\ last.out = Threw(ErrInvalid)

\* C7 (as stated): a call whose first argument is not an array fails, for
\* every number of arguments.
C7_NonArrayAlwaysFails ==
  (last.stage # "none" /\ last.nargs >= 1 /\ ~IsArray(last.arg))
    => FailedValidation

\* C7 (amended): a call whose first argument is not an array fails whenever
\* at least one more argument follows it, before any helper is invoked; when
\* it is the only argument the call is a Configure call, which returns a
\* function and does not fail.
C7_NonArrayFailsWithMoreArguments ==
  (last.stage # "none" /\ last.nargs >= 1 /\ ~IsArray(last.arg)) =>
    /\ last.nargs >= 2 => (FailedValidation /\ fns = <<EmptyObject>>)
    /\ last.nargs = 1 =>
         /\ last.stage = "configure" /\ last.out = Returned("function")
         /\ fns = <<EmptyObject, last.arg>>

\* C7 witness: an options object followed by two more arguments.
C7_Witness ==
  /\ last.arg = OptionsA /\ last.nargs = 3
  /\ last.stage = "validation" /\ last.out = Threw(TypeErrorValue)

\* C8 (as stated; the code breaks it): a call is treated as Configure if and
\* only if it has exactly one argument and that argument is not an array;
\* every other call is validated as an Invoke.
C8_ConfigureIffOneNonArray ==
  last.stage # "none" =>
    (last.stage = "configure" <=> (last.nargs = 1 /\ ~IsArray(last.arg)))

----------------------------------------------------------------------------
(* Further properties of the memo table (Spec) *)

\* the array is frozen and its raw is frozen, as the heap has it now
FrozenPair(s) == heap[s].frozen /\ heap[s].raw.frozen

\* C11: an array that is not frozen, or whose raw is not frozen, is never
\* read from or written to the table: the table has no entry for it, and
\* every valid Invoke of it invokes computeStaticHelper, whatever an earlier
\* computation for it did.
C11_UnfrozenBypassesTable ==
  /\ \A s \in Identities : ~FrozenPair(s) => s \notin DOMAIN memoTable
  /\ (ValidInvoke(last) /\ ~FrozenPair(last.arg))
       => (last.staticInvoked /\ ~last.memoizable)

\* C11 witness: the array is frozen, its raw is not; a valid Invoke of it has
\* just invoked computeStaticHelper, which returned, and the table is empty.
C11_Witness ==
  /\ heap["s1"].frozen /\ ~heap["s1"].raw.frozen
  /\ last.arg = "s1" /\ last.stage = "result" /\ last.staticInvoked
  /\ memoTable = << >>

\* the step is a valid Invoke of the frozen array of the call before it, in
\* which computeStaticHelper was invoked and the call threw
InvokeAfterStaticThrew ==
  /\ last.stage = "static" /\ last.staticInvoked /\ last.memoizable
  /\ ValidInvoke(last') /\ last'.arg = last.arg
  /\ heap' = heap

\* C12 (as stated; the code breaks it): after an Invoke in which
\* computeStaticHelper threw, every later Invoke of the same identity throws
\* an error with the message of the error thrown the first time, also when
\* that message is empty or absent.
C12_FailureVerbatim ==
  [][InvokeAfterStaticThrew =>
       /\ last'.out.threw
       /\ MessageOf(last'.out.val) = MessageOf(last.out.val)]_vars

\* the step is a call of a tag function that failed validation
CallFailedValidation ==
  /\ last' # last
  /\ last'.stage = "validation"

\* the step is a call, with a number of arguments that does not fit, on an
\* array that has an entry in the table
MisfitCallOnCachedArray ==
  /\ last' # last
  /\ heap' = heap
  /\ last'.arg \in DOMAIN memoTable
  /\ last'.nargs # Len(heap[last'.arg].elems)

\* C13: validation precedes the helpers: a call that fails validation has
\* invoked neither helper and leaves the table as it was, and an Invoke of an
\* array that has an entry in the table is validated like any other.
C13_ValidationFirst ==
  [][/\ CallFailedValidation =>
          /\ last'.out.threw
          /\ ~last'.staticInvoked /\ ~last'.resultInvoked
          /\ memoTable' = memoTable
          /\ staticCalls' = staticCalls
     /\ MisfitCallOnCachedArray =>
          /\ last'.stage = "validation"
          /\ last'.out = Threw(ErrCount)
          /\ memoTable' = memoTable]_vars

\* C13 witness: the template object has its static state in the table, and a
\* call of it without its dynamic value has just failed validation.
C13_Witness ==
  /\ "s2" \in DOMAIN memoTable /\ memoTable["s2"] = PassEntry("state")
  /\ last.arg = "s2" /\ last.nargs = 1 /\ last.stage = "validation"
  /\ last.out = Threw(ErrCount)

----------------------------------------------------------------------------
(* Properties of calledAsTemplateTagQuick and calledAsTemplateTag (SpecTag) *)

\* the first argument is a frozen array of argumentCount elements with a raw
\* that is a frozen array of as many
FrozenArrayPair(firstArgument, argumentCount) ==
  /\ firstArgument \in Identities
  /\ heap[firstArgument].frozen
  /\ Len(heap[firstArgument].elems) = argumentCount
  /\ heap[firstArgument].raw.kind = "array"
  /\ heap[firstArgument].raw.frozen
  /\ Len(heap[firstArgument].raw.elems) = Len(heap[firstArgument].elems)

\* C14: calledAsTemplateTagQuick(firstArgument, argumentCount) is true if and
\* only if firstArgument is a frozen array of argumentCount elements whose raw
\* is a frozen array of the same length, and it is false for every other
\* input: null, undefined, objects that are not arrays, arrays that are not
\* frozen, a frozen array without raw.
C14_QuickIffFrozenArrayPair ==
  probe.fn = "calledAsTemplateTag" =>
    /\ probe.quick \in BOOLEAN
    /\ probe.quick <=> FrozenArrayPair(probe.firstArgument, probe.argumentCount)
    /\ probe.firstArgument \notin Identities => ~probe.quick

\* C14 witness: a frozen array of one chunk with a frozen raw of one chunk,
\* and one argument: true.
C14_Witness ==
  /\ probe.fn = "calledAsTemplateTag" /\ probe.quick
  /\ probe.firstArgument = "s1" /\ probe.argumentCount = 1
  /\ heap["s1"].raw = RawArray(<<"foo">>, TRUE)

\* C15: calledAsTemplateTag is true exactly when calledAsTemplateTagQuick is
\* true and every element of firstArgument and of firstArgument.raw is a
\* string: it is false when the quick test is false, and false for a frozen
\* pair with an element that is not a string in either array.
C15_FullIffQuickAndStrings ==
  probe.fn = "calledAsTemplateTag" =>
    /\ ~probe.quick => ~probe.full
    /\ probe.firstArgument \in Identities =>
         LET a == heap[probe.firstArgument]
         IN  /\ probe.full <=>
                  (probe.quick /\ ~HasNonString(a.elems) /\ ~HasNonString(a.raw.elems))
             /\ (HasNonString(a.elems) \/ HasNonString(a.raw.elems)) => ~probe.full

\* C15 witness: the quick test is true of a frozen pair whose raw holds the
\* number 123, and calledAsTemplateTag is false.
C15_Witness ==
  /\ probe.fn = "calledAsTemplateTag" /\ probe.quick /\ ~probe.full
  /\ probe.firstArgument = "s1"
  /\ heap["s1"].elems = <<"foo">> /\ heap["s1"].raw.elems = <<Num123>>

----------------------------------------------------------------------------
(* Properties of trimCommonWhitespaceFromLines (SpecTrim) *)

\* trimCommonWhitespaceFromLines has been applied to the array "s1"
Trimmed == probe.fn = "trimCommonWhitespaceFromLines"

\* the raw chunks given and the raw chunks of the value returned
InputRaw == heap["s1"].raw.elems
OutputRaw == probe.value.raw.elems

\* both options are off, as they are by default
OptionsOff == ~probe.options.trimEolAtStart /\ ~probe.options.trimEolAtEnd

\* the number of whitespace characters in the chunks of raw
WhitespaceIn(raw) ==
  Cardinality({<<i, j>> \in (1..Len(raw)) \X (1..MaxChars + 1) :
                 j <= Len(raw[i]) /\ raw[i][j] \in {SP, TAB}})

\* the number of line terminator characters in the chunks of raw
TerminatorsIn(raw) ==
  Cardinality({<<i, j>> \in (1..Len(raw)) \X (1..MaxChars + 1) :
                 j <= Len(raw[i]) /\ raw[i][j] \in {LF, CR}})

\* C16 (as stated): when the first raw chunk does not begin with a line
\* break, whatever comes later, no indentation is stripped, and with default
\* options the input itself is returned.
C16_ActivatesOnLeadingBreak ==
  (Trimmed /\ ~(InputRaw[1] # <<>> /\ InputRaw[1][1] \in {LF, CR})) =>
    /\ WhitespaceIn(OutputRaw) = WhitespaceIn(InputRaw)
    /\ OptionsOff => (probe.same /\ probe.value = heap["s1"])

\* C16 (amended): trimming activates when the first raw chunk contains a
\* line break, at its start or later: when the first raw chunk contains no
\* line break, whatever line breaks and indentation appear in later chunks,
\* no indentation is stripped, and with default options the input itself is
\* returned.
C16_ActivatesOnBreakInFirstChunk ==
  (Trimmed /\ \A j \in 1..Len(InputRaw[1]) : InputRaw[1][j] \notin {LF, CR}) =>
    /\ WhitespaceIn(OutputRaw) = WhitespaceIn(InputRaw)
    /\ OptionsOff => (probe.same /\ probe.value = heap["s1"])

\* C16 witness: the first chunk is a letter, the second a line break and an
\* indented line that ends the template; with the options not given, the
\* input comes back.
C16_Witness ==
  /\ Trimmed /\ ~probe.given /\ probe.same
  /\ InputRaw = << <<Letter>>, <<LF, SP, SP>> >>
  /\ OutputRaw = InputRaw

\* the positions of chunk at which a line starts after a line break, where
\* CR LF is one line break and every other line terminator is one
LineStartsAfterEachBreak(chunk) ==
  {i \in 2..(Len(chunk) + 1) :
     /\ chunk[i - 1] \in {LF, CR}
     /\ ~(i <= Len(chunk) /\ chunk[i - 1] = CR /\ chunk[i] = LF)}

\* the positions of chunk at which a line starts after a run of one or more
\* line terminators: the lines that are empty because two line breaks follow
\* each other have no such position
LineStartsAfterRuns(chunk) ==
  {i \in LineStartsAfterEachBreak(chunk) :
     ~(i <= Len(chunk) /\ chunk[i] \in {LF, CR})}

\* the whitespace at position i of chunk: the longest stretch of whitespace
\* characters that starts there
WhitespaceAt(chunk, i) ==
  LET k == CHOOSE k \in 0..(Len(chunk) + 1 - i) :
             /\ \A m \in i..(i + k - 1) : chunk[m] \in {SP, TAB}
             /\ (i + k <= Len(chunk) => chunk[i + k] \notin {SP, TAB})
  IN  SubSeq(chunk, i, i + k - 1)

\* p is the start of s
IsStartOf(p, s) == Len(p) <= Len(s) /\ \A m \in 1..Len(p) : p[m] = s[m]

\* the longest sequence that is the start of every member of the set runs,
\* which is not empty
LongestCommonStart(runs) ==
  LET some == CHOOSE r \in runs : TRUE
      common == {k \in 0..Len(some) :
                   \A r \in runs : IsStartOf(SubSeq(some, 1, k), r)}
  IN  SubSeq(some, 1, CHOOSE k \in common : \A m \in common : m <= k)

\* chunk without the Len(prefix) characters that follow each position of starts
WithoutAt(chunk, prefix, starts) ==
  LET kept == {j \in 1..Len(chunk) :
                 ~\E i \in starts : i <= j /\ j < i + Len(prefix)}
  IN  [k \in 1..Cardinality(kept) |->
         chunk[CHOOSE j \in kept : Cardinality({m \in kept : m <= j}) = k]]

\* the whitespace at the line starts of all chunks, for line starts taken by
\* Starts(_)
LeadingRuns(raw, Starts(_)) ==
  UNION {{WhitespaceAt(raw[c], i) : i \in Starts(raw[c])} : c \in 1..Len(raw)}

\* trimming activates on the input: its first raw chunk has a line break
Activates == \E j \in 1..Len(InputRaw[1]) : InputRaw[1][j] \in {LF, CR}

\* with both options off, what is returned is the input without prefix after
\* each line start taken by Starts(_), where prefix is the longest common
\* start of the whitespace at those line starts; nothing is taken out when
\* that prefix is empty
DedentedBy(Starts(_)) ==
  LET prefix == LongestCommonStart(LeadingRuns(InputRaw, Starts))
  IN  /\ Len(OutputRaw) = Len(InputRaw)
      /\ \A c \in 1..Len(InputRaw) :
           OutputRaw[c] = WithoutAt(InputRaw[c], prefix, Starts(InputRaw[c]))
      /\ TerminatorsIn(OutputRaw) = TerminatorsIn(InputRaw)
      /\ WhitespaceIn(OutputRaw) =
           WhitespaceIn(InputRaw)
             - Len(prefix) * Cardinality(UNION {{<<c, i>> : i \in Starts(InputRaw[c])} :
                                                   c \in 1..Len(InputRaw)})

\* C17 (as stated): where trimming activates, the prefix removed is the
\* longest common prefix of the leading whitespace of all lines got by
\* splitting every raw chunk at its line breaks, the first fragment of each
\* chunk left out, and each raw chunk comes back without that prefix after
\* every line break, the line breaks kept.
C17_PrefixOfLinesAtEachBreak ==
  (Trimmed /\ Activates /\ OptionsOff) => DedentedBy(LineStartsAfterEachBreak)

\* C17 (amended): the same, where the chunks are split at runs of
\* consecutive line terminators: the empty lines between two line breaks that
\* follow each other are no lines of the split and have no part in the
\* prefix, and the prefix is removed once after every such run.
C17_PrefixOfLinesAtRuns ==
  (Trimmed /\ Activates /\ OptionsOff) => DedentedBy(LineStartsAfterRuns)

\* C17 witness: the line of each of two chunks is indented by one space, and
\* the space is removed from both.
C17_Witness ==
  /\ Trimmed /\ OptionsOff /\ ~probe.same
  /\ InputRaw = << <<LF, SP>>, <<LF, SP>> >>
  /\ OutputRaw = << <<LF>>, <<LF>> >>

\* a line that starts at one of the positions Starts(_) takes has no
\* whitespace at its start, or two such lines start with different
\* whitespace characters
NoSharedIndentation(raw, Starts(_)) ==
  LET runs == LeadingRuns(raw, Starts)
  IN  \/ <<>> \in runs
      \/ \E r1, r2 \in runs : r1 # <<>> /\ r2 # <<>> /\ r1[1] # r2[1]

\* C18 (as stated): when a line that follows a line break in a raw chunk has
\* no leading whitespace, an empty line included, or two such lines start
\* with different whitespace characters, nothing is stripped from any chunk.
C18_NoIndentationNoStrip ==
  (Trimmed /\ NoSharedIndentation(InputRaw, LineStartsAfterEachBreak)) =>
    /\ WhitespaceIn(OutputRaw) = WhitespaceIn(InputRaw)
    /\ OptionsOff => OutputRaw = InputRaw

\* C18 (amended): the same of the lines that follow a run of consecutive
\* line terminators: an empty line counts when the chunk ends after the line
\* break, and does not count when the next line break follows at once.
C18_NoIndentationAfterRunsNoStrip ==
  (Trimmed /\ NoSharedIndentation(InputRaw, LineStartsAfterRuns)) =>
    /\ WhitespaceIn(OutputRaw) = WhitespaceIn(InputRaw)
    /\ OptionsOff => (probe.same /\ OutputRaw = InputRaw)

\* C18 witness: one line starts with a tab, the next with a space; the input
\* comes back.
C18_Witness ==
  /\ Trimmed /\ OptionsOff /\ probe.same
  /\ InputRaw = << <<LF, TAB, LF, SP>> >>
  /\ OutputRaw = InputRaw

\* the length of the line-break token at the start of chunk: CR LF is one
LeadingBreak(chunk) ==
  IF Len(chunk) >= 2 /\ chunk[1] = CR /\ chunk[2] = LF THEN 2
  ELSE IF Len(chunk) >= 1 /\ chunk[1] \in {LF, CR} THEN 1
  ELSE 0

\* the length of the line-break token at the end of chunk
TrailingBreak(chunk) ==
  IF Len(chunk) >= 2 /\ chunk[Len(chunk) - 1] = CR /\ chunk[Len(chunk)] = LF THEN 2
  ELSE IF Len(chunk) >= 1 /\ chunk[Len(chunk)] \in {LF, CR} THEN 1
  ELSE 0

\* the raw chunks of the input after dedenting alone
DedentedRaw ==
  trimCommonWhitespaceFromLines(
    heap["s1"], [trimEolAtStart |-> FALSE, trimEolAtEnd |-> FALSE]).value.raw.elems

\* C19: trimEolAtStart takes one line-break token (CR LF is one) from the
\* start of the first raw chunk as dedenting left it, if one is there;
\* trimEolAtEnd takes one from the end of the last; no other text changes, no
\* second token is taken, a common prefix need not exist, and both options
\* are off when they are not given.
C19_EolFlags ==
  Trimmed =>
    LET n == Len(InputRaw)
        first == DedentedRaw[1]
        afterStart == IF probe.options.trimEolAtStart
                      THEN SubSeq(first, LeadingBreak(first) + 1, Len(first))
                      ELSE first
        lastIn == IF n = 1 THEN afterStart ELSE DedentedRaw[n]
        afterEnd == IF probe.options.trimEolAtEnd
                    THEN SubSeq(lastIn, 1, Len(lastIn) - TrailingBreak(lastIn))
                    ELSE lastIn
    IN  /\ Len(OutputRaw) = n
        /\ OutputRaw[n] = afterEnd
        /\ n > 1 => OutputRaw[1] = afterStart
        /\ \A c \in 2..(n - 1) : OutputRaw[c] = DedentedRaw[c]
        /\ WhitespaceIn(OutputRaw) = WhitespaceIn(DedentedRaw)
        /\ ~probe.given => (OptionsOff /\ OutputRaw = DedentedRaw)

\* C19 witness: both options on, no common prefix; of the two line breaks at
\* the start one goes, and the CR LF at the end goes as one.
C19_Witness ==
  /\ Trimmed /\ probe.options.trimEolAtStart /\ probe.options.trimEolAtEnd
  /\ InputRaw = << <<LF, LF>>, <<CR, LF>> >>
  /\ OutputRaw = << <<LF>>, <<>> >>

\* C20 (as stated): for every input and every combination of options, the
\* value returned is frozen, its raw is frozen, both have the length of the
\* input, and the value carries the trimmed raw chunks as its raw.
C20_ResultFrozen ==
  Trimmed =>
    /\ probe.value.frozen
    /\ probe.value.raw.kind = "array" /\ probe.value.raw.frozen
    /\ Len(probe.value.elems) = Len(heap["s1"].elems)
    /\ Len(probe.value.raw.elems) = Len(InputRaw)

\* C20 (amended): when a common prefix exists or an option is on, the value
\* returned is a new array that is frozen, with the trimmed raw chunks as its
\* raw, frozen too; otherwise the value is the input itself, frozen if and
\* only if the input is, as the template objects of the engine are; in both
\* cases the value and its raw have the length of the input.
C20_ResultFrozenUnlessInputReturned ==
  Trimmed =>
    /\ Len(probe.value.elems) = Len(heap["s1"].elems)
    /\ Len(probe.value.raw.elems) = Len(InputRaw)
    /\ probe.value.raw.kind = "array"
    /\ ~probe.same =>
         /\ probe.value.frozen /\ probe.value.raw.frozen
         /\ ~OptionsOff \/ WhitespaceIn(OutputRaw) < WhitespaceIn(InputRaw)
    /\ probe.same =>
         /\ probe.value = heap["s1"]
         /\ OptionsOff
    /\ (heap["s1"].frozen /\ heap["s1"].raw.frozen)
         => (probe.value.frozen /\ probe.value.raw.frozen)

\* C20 witness: an array that is not frozen has a common prefix removed, and
\* the value returned is frozen with a frozen raw.
C20_Witness ==
  /\ Trimmed /\ ~heap["s1"].frozen /\ ~probe.same
  /\ InputRaw = << <<LF, SP, Letter>> >>
  /\ probe.value = [elems |-> << <<LF, Letter>> >>, frozen |-> TRUE,
                    raw |-> RawArray(<< <<LF, Letter>> >>, TRUE)]

\* chunk with the whitespace w put in at each position of starts
IndentedChunk(chunk, w, starts) ==
  LET Upto[i \in 0..(Len(chunk) + 1)] ==
        IF i = 0 THEN <<>>
        ELSE Upto[i - 1] \o (IF i \in starts THEN w ELSE <<>>)
                         \o (IF i <= Len(chunk) THEN <<chunk[i]>> ELSE <<>>)
  IN  Upto[Len(chunk) + 1]

\* the chunks of raw, each line of which that starts at a position Starts(_)
\* takes carries the additional whitespace w
Indented(raw, w, Starts(_)) ==
  [c \in 1..Len(raw) |-> IndentedChunk(raw[c], w, Starts(raw[c]))]

\* the whitespace that re-indenting a block adds to its lines
ExtraIndentation == {<<SP>>, <<TAB>>, <<TAB, SP>>}

\* the template that differs from the input by w at the line starts
\* Starts(_) takes is trimmed, with the same options, to the same cooked and
\* raw chunks as the input
SameWhenIndented(w, Starts(_)) ==
  LET other == TemplateArray(Indented(InputRaw, w, Starts), heap["s1"].frozen)
      value == trimCommonWhitespaceFromLines(other, probe.options).value
  IN  /\ value.elems = probe.value.elems
      /\ value.raw.elems = OutputRaw

\* C21 (as stated): two chunk sequences that differ only in that every line
\* after a line break of one carries the same additional leading whitespace
\* are trimmed, with the same options, to equal cooked and equal raw chunks.
C21_ReindentInvariant ==
  Trimmed => \A w \in ExtraIndentation : SameWhenIndented(w, LineStartsAfterEachBreak)

\* C21 (amended): the same of two chunk sequences whose first raw chunk
\* contains a line break and that differ in the whitespace of every line that
\* follows a run of consecutive line terminators.
C21_ReindentInvariantWhereActive ==
  (Trimmed /\ Activates) =>
    \A w \in ExtraIndentation : SameWhenIndented(w, LineStartsAfterRuns)

\* C21 witness: a block of two lines, the second indented by a space more
\* than the first, is trimmed to itself, and so is the block indented by a tab.
C21_Witness ==
  /\ Trimmed /\ OptionsOff /\ probe.same
  /\ InputRaw = << <<LF, Letter, LF, SP>> >>
  /\ Indented(InputRaw, <<TAB>>, LineStartsAfterRuns) = << <<LF, TAB, Letter, LF, TAB, SP>> >>
  /\ SameWhenIndented(<<TAB>>, LineStartsAfterRuns)

\* cook has been applied
Cooked == probe.fn = "cook"

\* s has no backslash
NoBackslash(s) == \A i \in 1..Len(s) : s[i] # BACKSLASH

\* the number that the digits ds write in base
NumberOf(ds, base) ==
  LET Upto[i \in 0..Len(ds)] ==
        IF i = 0 THEN 0 ELSE Upto[i - 1] * base + DigitValue(ds[i])
  IN  Upto[Len(ds)]

\* s starts with n hex digits
StartsWithHex(s, n) == Len(s) >= n /\ \A i \in 1..n : s[i] \in HexDigits

\* the legacy octal escape at the start of s, which starts with an octal
\* digit: a digit 0-3 and up to two more octal digits, or a digit 4-7 and at
\* most one more
OctalEscape(s) ==
  LET most == IF s[1] \in {"0", "1", "2", "3"} THEN 3 ELSE 2
      k == CHOOSE k \in 1..most :
             /\ k <= Len(s)
             /\ \A i \in 1..k : s[i] \in OctalDigits
             /\ (k = most \/ k = Len(s) \/ s[k + 1] \notin OctalDigits)
  IN  SubSeq(s, 1, k)

\* C23: cook replaces a backslash, x and two hex digits, a backslash, u and
\* four hex digits, and a legacy octal escape by the one code unit that the
\* digits write in base 16 or 8; a backslash with x or u and fewer hex digits
\* than that is no escape and stays as it is.
C23_NumericEscapes ==
  Cooked =>
    \A rest \in {From(probe.trv, i) : i \in 2..(Len(probe.trv) + 1)} :
      (probe.trv[1] = BACKSLASH /\ NoBackslash(rest)) =>
        LET token == SubSeq(probe.trv, 2, Len(probe.trv) - Len(rest))
        IN  /\ (token # <<>> /\ token[1] = "x" /\ Len(token) = 3
                  /\ StartsWithHex(Tail(token), 2))
              => probe.tv = <<fromCharCode(NumberOf(Tail(token), 16))>> \o rest
            /\ (token # <<>> /\ token[1] = "u" /\ Len(token) = 5
                  /\ StartsWithHex(Tail(token), 4))
              => probe.tv = <<fromCharCode(NumberOf(Tail(token), 16))>> \o rest
            /\ (token # <<>> /\ token[1] \in OctalDigits
                  /\ token = OctalEscape(token \o rest))
              => probe.tv = <<fromCharCode(NumberOf(token, 8))>> \o rest
            /\ (token = <<"x">> /\ ~StartsWithHex(rest, 2))
              => probe.tv = probe.trv
            /\ (token = <<"u">> /\ ~StartsWithHex(rest, 4))
              => probe.tv = probe.trv

\* the character that one of the six mnemonics stands for, and any other
\* character itself
Mnemonic(c) ==
  CASE c = "b" -> BS [] c = "t" -> TAB [] c = "n" -> LF
    [] c = "v" -> VT [] c = "f" -> FF [] c = "r" -> CR
    [] OTHER -> c

\* C24: cook maps a backslash and one of b, t, n, v, f, r to backspace, tab,
\* newline, vertical tab, form feed and carriage return, a backslash and any
\* other character that is not u, x, an octal digit or a line break to that
\* character alone, the character after an escaped backslash not being read
\* again, and leaves every character outside an escape as it is, so that a
\* chunk without a backslash cooks to itself.
C24_SimpleEscapes ==
  Cooked =>
    /\ NoBackslash(probe.trv) => probe.tv = probe.trv
    /\ \A i \in 1..(Len(probe.trv) - 1) :
         LET pre == SubSeq(probe.trv, 1, i - 1)
             c == probe.trv[i + 1]
             post == From(probe.trv, i + 2)
         IN  (/\ probe.trv[i] = BACKSLASH
              /\ NoBackslash(pre) /\ NoBackslash(post)
              /\ c \notin {"u", "x", LF, CR} \cup OctalDigits)
               => probe.tv = pre \o <<Mnemonic(c)>> \o post

\* C24 witness: an escaped backslash before n gives a backslash and n, not a
\* newline.
C24_Witness ==
  /\ Cooked
  /\ probe.trv = <<BACKSLASH, BACKSLASH, "n">>
  /\ probe.tv = <<BACKSLASH, "n">>

\* the positions of chunk at which an escape starts: a backslash that an
\* even number of backslashes precedes and a character follows
EscapeStarts(chunk) ==
  {i \in 1..(Len(chunk) - 1) :
     /\ chunk[i] = BACKSLASH
     /\ \E k \in 0..(i - 1) :
          /\ k % 2 = 0
          /\ \A m \in (i - k)..(i - 1) : chunk[m] = BACKSLASH
          /\ (i - k = 1 \/ chunk[i - k - 1] # BACKSLASH)}

\* the positions of chunk at which a line continuation starts
Continuations(chunk) == {i \in EscapeStarts(chunk) : chunk[i + 1] \in {LF, CR}}

\* the length of the line continuation at position i: CR LF is one line break
ContinuationLength(chunk, i) ==
  IF chunk[i + 1] = CR /\ i + 2 <= Len(chunk) /\ chunk[i + 2] = LF THEN 3 ELSE 2

\* the sum of f over the finite set S of numbers
RECURSIVE SumOver(_, _)
SumOver(S, f) ==
  IF S = {} THEN 0
  ELSE LET x == CHOOSE x \in S : TRUE IN f[x] + SumOver(S \ {x}, f)

\* C22: in the result of trimCommonWhitespaceFromLines on a modified
\* sequence, a line continuation of the input (a backslash and the line break
\* after it) gives no character to the cooked chunk, while the raw chunk still
\* has the backslash and the line break; the line break of a continuation
\* counts as a line break when the indentation is stripped.
C22_LineContinuation ==
  (Trimmed /\ ~probe.same) =>
    /\ \A c \in 1..Len(InputRaw) :
         LET rawOut == OutputRaw[c]
             kept == Continuations(rawOut)
             taken == SumOver(kept, [i \in kept |-> ContinuationLength(rawOut, i)])
         IN  /\ Cardinality(kept) = Cardinality(Continuations(InputRaw[c]))
             /\ Len(probe.value.elems[c]) =
                  Len(rawOut) - taken - Cardinality(EscapeStarts(rawOut) \ kept)
             /\ Cardinality({j \in 1..Len(probe.value.elems[c]) :
                               probe.value.elems[c][j] \in {LF, CR}})
                  = Cardinality({j \in 1..Len(rawOut) : rawOut[j] \in {LF, CR}})
                      - (taken - Cardinality(kept))
    /\ (Activates /\ OptionsOff) => DedentedBy(LineStartsAfterRuns)

\* C25: a TypedString made of a value holds String(value) as its content,
\* its string conversion returns that content, and an assignment to content
\* after construction fails and leaves content as it was, in every state
\* after construction.
C25_ContentReadOnly ==
  probe.fn = "TypedString" =>
    /\ probe.given = Num123 => probe.this.content = "123"
    /\ probe.given = EmptyObject => probe.this.content = "[object Object]"
    /\ probe.given = Null => probe.this.content = "null"
    /\ probe.given = Undefined => probe.this.content = "undefined"
    /\ probe.given \in {"foo", "", "/", "0"} => probe.this.content = probe.given
    /\ probe.op = "toString" => probe.out = Returned(probe.this.content)
    /\ (probe.op = "assign" /\ probe.strict) => probe.out.threw
    /\ (probe.op = "define" /\ probe.arg # probe.this.content) => probe.out.threw

\* C25 witness: the content of a TypedString made of the number 123 is the
\* string 123 after an assignment of bar in strict code, which threw.
C25_Witness ==
  /\ probe.fn = "TypedString" /\ probe.given = Num123
  /\ probe.op = "assign" /\ probe.strict /\ probe.arg = "bar"
  /\ probe.out = Threw(TypeErrorReadOnly)
  /\ probe.this.content = "123"

\* C26: the table holds the chunk sequences weakly.  The entry of a chunk
\* sequence is never what keeps it resident: a chunk sequence with an entry
\* that the caller does not refer to, and that no static state of another
\* resident chunk sequence refers to, is not resident, so that the engine
\* can reclaim it, and its entry goes with it.
C26_EntriesHeldWeakly ==
  probe.fn = "weak" =>
    /\ \A s \in DOMAIN memoTable :
         s \in Resident(probe.roots, memoTable)
           => s \in Resident(probe.roots, MemoWithout(memoTable, {s}))
    /\ \A s \in Identities \ probe.collected :
         (/\ s \notin probe.roots
          /\ \A k \in DOMAIN memoTable \ {s} :
               memoTable[k].pass = s => k \notin Resident(probe.roots, memoTable))
           => ENABLED Collect(s)
    /\ probe.collected \cap DOMAIN memoTable = {}

\* C26 witness: a chunk sequence whose static state is the chunk sequence
\* itself was dropped by the caller and reclaimed, and the table has no entry
\* for it any more.
C26_Witness ==
  /\ probe.fn = "weak"
  /\ "s1" \in probe.collected /\ "s1" \notin DOMAIN memoTable
  /\ firstStatic["s1"] = "returned"
  /\ "s2" \in DOMAIN memoTable /\ memoTable["s2"].pass = "s2"
  /\ "s2" \notin probe.roots

\* C27 (as stated): once the table holds an entry for a chunk sequence, no
\* later operation replaces or removes it: the kind and the value stored for
\* that identity are the same in every later state.
C27_EntryNeverReplaced ==
  [][\A s \in DOMAIN memoTable : s \in DOMAIN memoTable' /\ memoTable'[s] = memoTable[s]]_vars

\* the number of calls for the chunk sequence s whose computeStaticHelper is
\* running
FramesFor(s) ==
  Cardinality({i \in DOMAIN probe.stack : probe.stack[i].arg = s})

\* this step starts computeStaticHelper for the chunk sequence s
StartsHelper(s) ==
  /\ Len(probe'.stack) = Len(probe.stack) + 1
  /\ probe'.stack[Len(probe'.stack)].arg = s

\* this step ends the computeStaticHelper of the innermost call, which is for
\* the chunk sequence s
EndsHelper(s) ==
  /\ probe.stack # <<>>
  /\ probe.stack[Len(probe.stack)].arg = s
  /\ probe'.stack = SubSeq(probe.stack, 1, Len(probe.stack) - 1)

\* C27 (amended): no operation removes an entry, and no call made while the
\* table holds an entry for its chunk sequence replaces that entry or starts
\* computeStaticHelper; the one step that replaces an entry is the end of a
\* computeStaticHelper for that chunk sequence that was started before the
\* entry was stored, around the nested call that stored it.
C27_EntryReplacedOnlyByEnclosingCall ==
  [][/\ \A s \in DOMAIN memoTable :
          /\ s \in DOMAIN memoTable'
          /\ memoTable'[s] # memoTable[s] => EndsHelper(s)
          /\ ~StartsHelper(s)
     /\ \A s \in Identities :
          (s \notin DOMAIN memoTable /\ s \in DOMAIN memoTable') => EndsHelper(s)]_vars

\* C27 witness: the table has an entry for s1, stored by a nested call, while
\* the computeStaticHelper of the enclosing call for s1 is still running.
C27_Witness ==
  /\ probe.fn = "nested"
  /\ probe.stack = <<[arg |-> "s1"]>>
  /\ "s1" \in DOMAIN memoTable /\ memoTable["s1"] = PassEntry("state")
  /\ staticCalls["s1"] = 2

\* C28 (as stated): the entry for an identity is written only after
\* computeStaticHelper has returned or thrown, so while computeStaticHelper is
\* running for a frozen chunk sequence the table holds no entry for it, and a
\* nested call with the same chunk sequence finds a miss and starts
\* computeStaticHelper again.
C28_NoEntryWhileRunning ==
  probe.fn = "nested" =>
    /\ \A i \in DOMAIN probe.stack : probe.stack[i].arg \notin DOMAIN memoTable
    /\ \A s \in Identities :
         (FramesFor(s) > 0 /\ Len(probe.stack) < MaxCalls
            /\ staticCalls[s] < MaxCalls) =>
           ENABLED (EnterCall(s) /\ StartsHelper(s))

\* C28 (amended): the table holds an entry for a chunk sequence only when a
\* computeStaticHelper for it has returned or thrown: there is no placeholder
\* for one that is running.  While computeStaticHelper is running for a
\* frozen chunk sequence and no nested call has stored an entry for it, a
\* nested call with the same chunk sequence finds a miss and starts
\* computeStaticHelper again.
C28_NoPlaceholder ==
  probe.fn = "nested" =>
    /\ \A s \in DOMAIN memoTable : staticCalls[s] > FramesFor(s)
    /\ \A s \in Identities :
         (FramesFor(s) > 0 /\ s \notin DOMAIN memoTable
            /\ Len(probe.stack) < MaxCalls /\ staticCalls[s] < MaxCalls) =>
           ENABLED (EnterCall(s) /\ StartsHelper(s))

\* C28 witness: computeStaticHelper is running twice for s1, the second time
\* for a nested call, and the table has no entry for s1.
C28_Witness ==
  /\ probe.fn = "nested"
  /\ probe.stack = <<[arg |-> "s1"], [arg |-> "s1"]>>
  /\ "s1" \notin DOMAIN memoTable
  /\ staticCalls["s1"] = 2

\* C29 (as stated; the code breaks it): every call that calledAsTemplateTag
\* accepts is accepted and memoized by the tag function: when
\* calledAsTemplateTag(strings, 1 + k) is true, the call of the tag function
\* with strings and k dynamic values is an Invoke that passes validation, its
\* static state is stored on first use and used again afterwards.
C29_StrictAcceptedIsMemoized ==
  (/\ last.stage # "none"
   /\ last.arg \in Identities
   /\ last.memoizable
   /\ calledAsTemplateTag(heap, last.arg, last.nargs)) =>
    /\ last.stage \in {"static", "result"}
    /\ last.arg \in DOMAIN memoTable
    /\ staticCalls[last.arg] = 1

\* trimCommonWhitespaceFromLines, with default options, applied to the value
\* that it returned
TrimmedAgain ==
  trimCommonWhitespaceFromLines(
    probe.value, [trimEolAtStart |-> FALSE, trimEolAtEnd |-> FALSE])

\* the lines of the input that follow a run of line terminators have no
\* whitespace in common at their start, or trimming does not activate
NoCommonPrefix ==
  \/ ~Activates
  \/ LongestCommonStart(LeadingRuns(InputRaw, LineStartsAfterRuns)) = <<>>

\* a line of the input, not the last of its chunk, consists of the common
\* prefix alone
LineOfPrefixAlone ==
  /\ Activates
  /\ LET prefix == LongestCommonStart(LeadingRuns(InputRaw, LineStartsAfterRuns))
     IN  /\ prefix # <<>>
         /\ \E c \in 1..Len(InputRaw) :
              \E i \in LineStartsAfterRuns(InputRaw[c]) :
                /\ i + Len(prefix) <= Len(InputRaw[c])
                /\ InputRaw[c][i + Len(prefix)] \in {LF, CR}

\* C30 (as stated): with neither option set, the input object itself is
\* returned whenever there is no non-empty common prefix, and the function is
\* idempotent: applied with default options to its own result, it returns
\* that result unchanged, for every chunk sequence.
C30_Idempotent ==
  (Trimmed /\ OptionsOff) =>
    /\ NoCommonPrefix => (probe.same /\ probe.value = heap["s1"])
    /\ TrimmedAgain.same /\ TrimmedAgain.value = probe.value

\* C30 (amended): the same, for every chunk sequence none of whose lines,
\* the last of a chunk left aside, consists of the common prefix alone; such a
\* line is empty in the result and counts no more as a line, so that the
\* lines that are left can have a prefix in common again.
C30_IdempotentWithoutPrefixOnlyLines ==
  (Trimmed /\ OptionsOff) =>
    /\ NoCommonPrefix => (probe.same /\ probe.value = heap["s1"])
    /\ ~LineOfPrefixAlone => (TrimmedAgain.same /\ TrimmedAgain.value = probe.value)

\* C30 witness: a line indented by two spaces loses them, and the result is
\* returned as it is when it is trimmed again.
C30_Witness ==
  /\ Trimmed /\ OptionsOff /\ ~probe.same
  /\ InputRaw = << <<LF, SP, SP, Letter>> >>
  /\ OutputRaw = << <<LF, Letter>> >>
  /\ TrimmedAgain.same /\ TrimmedAgain.value = probe.value

====
